---- MODULE Spec2Model ----
(***************************************************************************)
(* A model of the LangSmith helper scripts of langchain-skills:            *)
(*   generate_datasets.ts  (trace loading, extraction, dataset builders,   *)
(*                          file export, upload with --replace)            *)
(*   upload_evaluators.ts  (delete / upload --replace of evaluator rules)  *)
(*   query_traces.ts       (printTree)                                     *)
(*   query_datasets.ts     (view-file CSV reader)                          *)
(* Each script is a separate program; each gets its own specification      *)
(* over its own variables, the variables of the other programs staying at  *)
(* their idle value.                                                       *)
(***************************************************************************)
EXTENDS Integers, Sequences, FiniteSets, TLC

VARIABLES
  \* ---- generate_datasets.ts, the CLI action -------------------------
  g_pc,          \* position of the async action
  g_opts,        \* [upload, replace, yes]: --upload given, --replace, --yes
  g_apiKey,      \* LANGSMITH_API_KEY is set
  g_traces,      \* traces.length > 0 after loading
  g_dataset,     \* the examples generateDataset returned
  g_file,        \* the output path: [exists, content]
  g_remote,      \* the destination dataset on the server: [exists, examples]
  g_remote0,     \* the destination dataset as it was when the run began
  g_requests,    \* the requests sent to the server so far, in order
  g_answer,      \* the answers the user typed at the prompt, in order
  g_out,         \* the messages printed so far
  \* ---- upload_evaluators.ts, the delete and upload commands ----------
  e_pc,          \* position of the async action
  e_cmd,         \* "delete" or "upload"
  e_opts,        \* [yes, replace, dataset, project, fileOk, fnOk]
  e_rules,       \* display names of the evaluator rules on the server
  e_known,       \* [dataset, project]: the target names resolve on the server
  e_ids,         \* [dataset, project]: the target ids resolved so far
  e_requests,    \* the requests sent to /runs/rules so far, in order
  e_answer,      \* the answers the user typed at the prompt, in order
  e_out,         \* the messages printed so far
  \* ---- generate_datasets.ts, trace loading ---------------------------
  l_pc,          \* "start" before the load, "loaded" after
  l_files,       \* the .jsonl files of the input directory: name -> lines
  l_input,       \* what --input named: a file name, or Dir for the directory
  l_sort,        \* --sort
  l_traces,      \* the TraceData[] the loader returned
  \* ---- the run hierarchy: getDepth (generate_datasets.ts) and
  \* ---- printTree (query_traces.ts) ------------------------------------
  h_pc,          \* "depth" / "inDepth" (getDepth), "tree" / "inTree" (printTree), "done"
  h_runs,        \* the runs of one trace
  h_target,      \* getDepth's runId argument; the root printTree was called for
  h_current,     \* getDepth's current
  h_d,           \* getDepth's d
  h_depths,      \* the depths getDepth has returned: run id -> depth
  h_stack,       \* printTree's call stack: frames [children, i, indent]
  h_visited,     \* printTree's visited set
  h_printed,     \* the runs printTree has rendered: <<run id, indent>>, in order
  h_iter,        \* iterations of printTree's for-loop so far
  \* ---- generate_datasets.ts, extractValue ----------------------------
  x_pc,          \* "start" before the call, "returned" after
  x_data,        \* the payload: [null, entries], entries in insertion order
  x_fields,      \* fields (<<>> when undefined)
  x_common,      \* commonFields (<<>> when undefined)
  x_role,        \* messageRole
  x_fallback,    \* fallbackToRaw
  x_result,      \* the value returned
  \* ---- exportToFile (CSV) and query_datasets view-file ---------------
  c_pc,          \* "start", "exported", "viewed"
  c_dataset,     \* the examples handed to exportToFile
  c_file,        \* the output file: [exists, content], content a character sequence
  c_rows,        \* the rows view-file builds
  \* ---- generate_datasets.ts, generateDataset (trajectory) ------------
  t_pc,          \* "start", "done", or "hung" inside getDepth's while loop
  t_traces,      \* the traces: [trace_id, inputs (of the root run), runs]
  t_options,     \* [depth, inputFields]
  t_dataset,     \* the examples generateDataset returns
  \* ---- generate_datasets.ts, generateDataset (single_step) -----------
  s_pc,          \* "start" before the call, "done" after
  s_trace,       \* the trace: [trace_id, inputs (of the root run), runs]
  s_options,     \* [runName, samplePerTrace]
  s_dataset,     \* the examples generateDataset returns
  \* ---- generate_datasets.ts, generateDataset (rag) -------------------
  r_pc,          \* "start" before the call, "done" after
  r_runs,        \* the runs of the trace
  r_dataset,     \* the examples generateDataset returns
  \* ---- generate_datasets.ts, generateDataset (final_response) --------
  f_pc,          \* "start" before the call, "done" after
  f_root,        \* the root run: [inputs, outputs]
  f_options,     \* [inputFields, outputFields, messagesOnly]
  f_dataset,     \* the examples generateDataset returns
  \* ---- query_traces.ts, buildQueryParams ------------------------------
  q_pc,          \* "start" before the call, "returned" after
  q_options,     \* the options argument
  q_env,         \* process.env.LANGSMITH_PROJECT
  q_params,      \* the QueryParams returned
  \* ---- query_traces.ts, traces export ---------------------------------
  p_pc,          \* "fetch", "write", "done" ("aborted": ended by an exception)
  p_ids,         \* traceIdList
  p_pattern,     \* opts.filenamePattern, as tokens
  p_outcomes,    \* the outcome of each fetch so far: failed, or the runs received
  p_results,     \* results: [tid, runs]
  p_warnings,    \* the trace ids warned about
  p_written,     \* number of results written so far (idx)
  p_writes,      \* the writeFileSync calls so far: [file, tid, lines]
  p_files,       \* the files of the output directory: [file, lines]
  p_reported,    \* the count in "Exported N trace(s)", NoNumber before
  \* ---- install.sh ------------------------------------------------------
  i_pc,          \* "parse", "check", "confirm", "prepare", "skills", "exited"
  i_args,        \* "$@"
  i_opts,        \* TARGET, GLOBAL, FORCE, YES
  i_reply,       \* $REPLY, "" before the prompt
  i_shipped,     \* whether config/AGENTS.md is in the package
  i_exists,      \* [ -d "$INSTALL_DIR" ]
  i_fs,          \* what is at each path under $INSTALL_DIR
  i_before,      \* i_fs when the script started
  i_next,        \* position of the skills loop
  i_exit,        \* exit status, NoExit while running
  \* ---- query_datasets.ts, view-file and structure ------------------------
  v_pc,          \* "start", "exited"
  v_file,        \* the file at filePath: exists, ext, content
  v_opts,        \* format and limit
  v_out,         \* what was printed
  v_exit,        \* exit status of the process, NoExit while running
  \* ---- generate_datasets.ts, extractFromMessages --------------------------
  m_pc,          \* "start", "returned"
  m_messages,    \* the messages argument, an array
  m_role,        \* the role argument
  m_result       \* the value returned

genVars == <<g_pc, g_opts, g_apiKey, g_traces, g_dataset, g_file, g_remote,
             g_remote0, g_requests, g_answer, g_out>>

evalVars == <<e_pc, e_cmd, e_opts, e_rules, e_known, e_ids, e_requests,
              e_answer, e_out>>

loadVars == <<l_pc, l_files, l_input, l_sort, l_traces>>

hierVars == <<h_pc, h_runs, h_target, h_current, h_d, h_depths, h_stack,
              h_visited, h_printed, h_iter>>

extractVars == <<x_pc, x_data, x_fields, x_common, x_role, x_fallback, x_result>>

csvVars == <<c_pc, c_dataset, c_file, c_rows>>

trajVars == <<t_pc, t_traces, t_options, t_dataset>>

stepVars == <<s_pc, s_trace, s_options, s_dataset>>

ragVars == <<r_pc, r_runs, r_dataset>>

finalVars == <<f_pc, f_root, f_options, f_dataset>>

queryVars == <<q_pc, q_options, q_env, q_params>>

exportVars == <<p_pc, p_ids, p_pattern, p_outcomes, p_results, p_warnings, p_written, p_writes, p_files, p_reported>>

installVars == <<i_pc, i_args, i_opts, i_reply, i_shipped, i_exists, i_fs, i_before, i_next, i_exit>>

viewVars == <<v_pc, v_file, v_opts, v_out, v_exit>>

messagesVars == <<m_pc, m_messages, m_role, m_result>>

vars ==
  <<genVars, evalVars, loadVars, hierVars, extractVars, csvVars, trajVars, stepVars, ragVars, finalVars, queryVars, exportVars, installVars, viewVars, messagesVars>>

(***************************************************************************)
(* Strings that the code inspects character by character are sequences of  *)
(* one-character strings.                                                  *)
(***************************************************************************)
Range(s) == {s[i] : i \in DOMAIN s}

SeqsUpTo(S, n) == UNION {[1..k -> S] : k \in 0..n}

ToLowerChar(c) ==
  CASE c = "Y" -> "y"
    [] c = "N" -> "n"
    [] c = "E" -> "e"
    [] c = "S" -> "s"
    [] OTHER -> c

toLowerCase(s) == [i \in DOMAIN s |-> ToLowerChar(s[i])]

IsSpace(c) == c \in {" ", "\t", "\n"}

RECURSIVE trimStart(_)
trimStart(s) ==
  IF s # <<>> /\ IsSpace(Head(s)) THEN trimStart(Tail(s)) ELSE s

RECURSIVE trimEnd(_)
trimEnd(s) ==
  IF s # <<>> /\ IsSpace(s[Len(s)]) THEN trimEnd(SubSeq(s, 1, Len(s) - 1)) ELSE s

trim(s) == trimEnd(trimStart(s))

notGen ==
  <<evalVars, loadVars, hierVars, extractVars, csvVars, trajVars, stepVars, ragVars, finalVars, queryVars, exportVars, installVars, viewVars, messagesVars>>
notEval ==
  <<genVars, loadVars, hierVars, extractVars, csvVars, trajVars, stepVars, ragVars, finalVars, queryVars, exportVars, installVars, viewVars, messagesVars>>
notLoad ==
  <<genVars, evalVars, hierVars, extractVars, csvVars, trajVars, stepVars, ragVars, finalVars, queryVars, exportVars, installVars, viewVars, messagesVars>>
notHier ==
  <<genVars, evalVars, loadVars, extractVars, csvVars, trajVars, stepVars, ragVars, finalVars, queryVars, exportVars, installVars, viewVars, messagesVars>>
notExtract ==
  <<genVars, evalVars, loadVars, hierVars, csvVars, trajVars, stepVars, ragVars, finalVars, queryVars, exportVars, installVars, viewVars, messagesVars>>
notCsv ==
  <<genVars, evalVars, loadVars, hierVars, extractVars, trajVars, stepVars, ragVars, finalVars, queryVars, exportVars, installVars, viewVars, messagesVars>>
notTraj ==
  <<genVars, evalVars, loadVars, hierVars, extractVars, csvVars, stepVars, ragVars, finalVars, queryVars, exportVars, installVars, viewVars, messagesVars>>
notStep ==
  <<genVars, evalVars, loadVars, hierVars, extractVars, csvVars, trajVars, ragVars, finalVars, queryVars, exportVars, installVars, viewVars, messagesVars>>
notRag ==
  <<genVars, evalVars, loadVars, hierVars, extractVars, csvVars, trajVars, stepVars, finalVars, queryVars, exportVars, installVars, viewVars, messagesVars>>
notFinal ==
  <<genVars, evalVars, loadVars, hierVars, extractVars, csvVars, trajVars, stepVars, ragVars, queryVars, exportVars, installVars, viewVars, messagesVars>>
notQuery ==
  <<genVars, evalVars, loadVars, hierVars, extractVars, csvVars, trajVars, stepVars, ragVars, finalVars, exportVars, installVars, viewVars, messagesVars>>
notExport ==
  <<genVars, evalVars, loadVars, hierVars, extractVars, csvVars, trajVars, stepVars, ragVars, finalVars, queryVars, installVars, viewVars, messagesVars>>
notInstall ==
  <<genVars, evalVars, loadVars, hierVars, extractVars, csvVars, trajVars, stepVars, ragVars, finalVars, queryVars, exportVars, viewVars, messagesVars>>
notView ==
  <<genVars, evalVars, loadVars, hierVars, extractVars, csvVars, trajVars, stepVars, ragVars, finalVars, queryVars, exportVars, installVars, messagesVars>>
notMessages ==
  <<genVars, evalVars, loadVars, hierVars, extractVars, csvVars, trajVars, stepVars, ragVars, finalVars, queryVars, exportVars, installVars, viewVars>>

(***************************************************************************)
(* generate_datasets.ts: the CLI action, from the output-exists check to   *)
(* the upload.                                                             *)
(***************************************************************************)
NoFile == [exists |-> FALSE, content |-> {}]
OldFile == [exists |-> TRUE, content |-> {"f1"}]
NoDataset == [exists |-> FALSE, examples |-> {}]
Dataset(examples) == [exists |-> TRUE, examples |-> examples]
NoAnswer == <<>>

NewExamples == {"n1", "n2"}
OldExamples == {"o1", "o2"}

\* What a user can type at the (y/n) prompt.
Answers ==
  { <<"y">>, <<"Y">>, <<" ", "y">>, <<"Y", " ">>, <<"n">>, <<"N">>, <<>>,
    <<"y", "e", "s">>, <<"y", "y">>, <<" ">> }

\* promptConfirm resolves answer.toLowerCase().trim() === "y"
promptConfirm(answer) == trim(toLowerCase(answer)) = <<"y">>

\* if (!opts.yes) guards the prompt
NeedsPrompt_Never(opts) == FALSE

NeedsPrompt(opts) == ~opts.yes

\* if (opts.replace) guards the delete-existing branch
ReplaceRequested_Always(opts) == TRUE

ReplaceRequested(opts) == opts.replace

\* createExamples adds the examples to the dataset it is given
createExamples(remote, dataset) == Dataset(remote.examples \cup dataset)

GenStart ==
  /\ g_pc = "start"
  /\ g_opts \in [upload : BOOLEAN, replace : BOOLEAN, yes : BOOLEAN]
  /\ g_apiKey \in BOOLEAN
  /\ g_traces \in BOOLEAN
  /\ g_dataset \in {{}, {"n1"}, NewExamples}
  /\ g_file \in {NoFile, OldFile}
  /\ g_remote \in {NoDataset, Dataset({}), Dataset(OldExamples)}
  /\ g_remote0 = g_remote
  /\ g_requests = <<>>
  /\ g_answer = NoAnswer
  /\ g_out = {}

GenIdle ==
  /\ g_pc = "idle"
  /\ g_opts = [upload |-> FALSE, replace |-> FALSE, yes |-> FALSE]
  /\ g_apiKey = FALSE
  /\ g_traces = FALSE
  /\ g_dataset = {}
  /\ g_file = NoFile
  /\ g_remote = NoDataset
  /\ g_remote0 = NoDataset
  /\ g_requests = <<>>
  /\ g_answer = NoAnswer
  /\ g_out = {}

\* Lines 832-888: output check, load, generate, exportToFile, getClient,
\* and the choice of the first request.
GenRun ==
  /\ g_pc = "start"
  /\ IF g_file.exists /\ ~g_opts.replace
       THEN g_pc' = "done" /\ g_out' = g_out \cup {"exists"} /\ UNCHANGED g_file
     ELSE IF ~g_traces
       THEN g_pc' = "done" /\ g_out' = g_out \cup {"no traces"} /\ UNCHANGED g_file
     ELSE IF g_dataset = {}
       THEN g_pc' = "done" /\ g_out' = g_out \cup {"no examples"} /\ UNCHANGED g_file
     ELSE /\ g_file' = [exists |-> TRUE, content |-> g_dataset]
          /\ g_out' = g_out \cup {"exported"}
          /\ g_pc' = IF ~g_opts.upload THEN "done"
                     ELSE IF ~g_apiKey THEN "exit1"
                     ELSE IF ReplaceRequested(g_opts) THEN "readExisting"
                     ELSE "createDataset"
  /\ UNCHANGED <<g_opts, g_apiKey, g_traces, g_dataset, g_remote, g_remote0,
                 g_requests, g_answer>>
  /\ UNCHANGED notGen

\* Lines 889-902: readDataset inside the try; a failure (no such dataset, or
\* the request failing) lands in the catch, and the upload goes on.
GenReadExisting ==
  /\ g_pc = "readExisting"
  /\ g_requests' = Append(g_requests, "readDataset")
  /\ \E ok \in BOOLEAN :
       IF ok /\ g_remote.exists
         THEN g_pc' = IF NeedsPrompt(g_opts) THEN "prompt" ELSE "delete"
         ELSE g_pc' = "createDataset"
  /\ UNCHANGED <<g_opts, g_apiKey, g_traces, g_dataset, g_file, g_remote,
                 g_remote0, g_answer, g_out>>
  /\ UNCHANGED notGen

\* Lines 894-901: the prompt and the user's answer.
GenPrompt ==
  /\ g_pc = "prompt"
  /\ \E a \in Answers :
       /\ g_answer' = Append(g_answer, a)
       /\ IF promptConfirm(a)
            THEN g_pc' = "delete" /\ g_out' = g_out \cup {"about to delete"}
            ELSE g_pc' = "done"
                 /\ g_out' = g_out \cup {"about to delete", "cancelled"}
  /\ UNCHANGED <<g_opts, g_apiKey, g_traces, g_dataset, g_file, g_remote,
                 g_remote0, g_requests>>
  /\ UNCHANGED notGen

\* Lines 903-907: deleteDataset; a failure is swallowed by the same catch.
GenDelete ==
  /\ g_pc = "delete"
  /\ g_requests' = Append(g_requests, "deleteDataset")
  /\ \E ok \in BOOLEAN :
       IF ok
         THEN g_remote' = NoDataset /\ g_out' = g_out \cup {"deleted"}
         ELSE UNCHANGED <<g_remote, g_out>>
  /\ g_pc' = "createDataset"
  /\ UNCHANGED <<g_opts, g_apiKey, g_traces, g_dataset, g_file, g_remote0,
                 g_answer>>
  /\ UNCHANGED notGen

\* exportToLangsmith, lines 730-735: createDataset; it throws when the name
\* is taken (or the request fails), and the catch reads the dataset instead.
GenCreateDataset ==
  /\ g_pc = "createDataset"
  /\ g_requests' = Append(g_requests, "createDataset")
  /\ \E ok \in BOOLEAN :
       IF ok /\ ~g_remote.exists
         THEN g_remote' = Dataset({}) /\ g_out' = g_out \cup {"created"}
              /\ g_pc' = "createExamples"
         ELSE g_pc' = "readDataset" /\ UNCHANGED <<g_remote, g_out>>
  /\ UNCHANGED <<g_opts, g_apiKey, g_traces, g_dataset, g_file, g_remote0,
                 g_answer>>
  /\ UNCHANGED notGen

\* exportToLangsmith, lines 735-738: the catch's readDataset; its failure is
\* not caught.
GenReadDataset ==
  /\ g_pc = "readDataset"
  /\ g_requests' = Append(g_requests, "readDataset")
  /\ \E ok \in BOOLEAN :
       IF ok /\ g_remote.exists
         THEN g_pc' = "createExamples" /\ g_out' = g_out \cup {"using existing"}
         ELSE g_pc' = "failed" /\ UNCHANGED g_out
  /\ UNCHANGED <<g_opts, g_apiKey, g_traces, g_dataset, g_file, g_remote,
                 g_remote0, g_answer>>
  /\ UNCHANGED notGen

\* exportToLangsmith, lines 740-758: createExamples on ds.id.
GenCreateExamples ==
  /\ g_pc = "createExamples"
  /\ g_requests' = Append(g_requests, "createExamples")
  /\ \E ok \in BOOLEAN :
       IF ok /\ g_remote.exists
         THEN g_remote' = createExamples(g_remote, g_dataset)
              /\ g_out' = g_out \cup {"added"}
              /\ g_pc' = "done"
         ELSE g_pc' = "failed" /\ UNCHANGED <<g_remote, g_out>>
  /\ UNCHANGED <<g_opts, g_apiKey, g_traces, g_dataset, g_file, g_remote0,
                 g_answer>>
  /\ UNCHANGED notGen


(***************************************************************************)
(* upload_evaluators.ts: the delete command and the upload command.        *)
(***************************************************************************)
TheName == "mine"
RuleNames == {"mine", "other"}

Get == [method |-> "GET", dataset_id |-> "none", session_id |-> "none"]
Delete == [method |-> "DELETE", dataset_id |-> "none", session_id |-> "none"]
Post(ids) == [method |-> "POST", dataset_id |-> ids.dataset, session_id |-> ids.project]

\* deleteEvaluator(name, confirm): the delete command passes !opts.yes,
\* createCodePayload passes false.
DeleteConfirm(cmd, opts) == IF cmd = "delete" THEN ~opts.yes ELSE FALSE

\* createCodePayload: if (!options.skipConfirm) guards the replace prompt
ReplaceConfirm_Never(opts) == FALSE

ReplaceConfirm(opts) == ~opts.yes

EvalStart ==
  /\ e_pc = "start"
  /\ e_cmd \in {"delete", "upload"}
  /\ e_opts \in [yes : BOOLEAN, replace : BOOLEAN, dataset : BOOLEAN,
                 project : BOOLEAN, fileOk : BOOLEAN, fnOk : BOOLEAN]
  /\ e_cmd = "delete" =>
       /\ ~e_opts.replace /\ ~e_opts.dataset /\ ~e_opts.project
       /\ e_opts.fileOk /\ e_opts.fnOk
  /\ e_rules \in SUBSET RuleNames
  /\ e_known \in [dataset : BOOLEAN, project : BOOLEAN]
  /\ e_ids = [dataset |-> "none", project |-> "none"]
  /\ e_requests = <<>>
  /\ e_answer = <<>>
  /\ e_out = {}

EvalIdle ==
  /\ e_pc = "idle"
  /\ e_cmd = "none"
  /\ e_opts = [yes |-> FALSE, replace |-> FALSE, dataset |-> FALSE,
               project |-> FALSE, fileOk |-> FALSE, fnOk |-> FALSE]
  /\ e_rules = {}
  /\ e_known = [dataset |-> FALSE, project |-> FALSE]
  /\ e_ids = [dataset |-> "none", project |-> "none"]
  /\ e_requests = <<>>
  /\ e_answer = <<>>
  /\ e_out = {}

\* The delete action (line 399) enters deleteEvaluator; the upload action
\* (lines 414-440) reads the file, extracts the function and enters
\* createCodePayload.
EvalRun ==
  /\ e_pc = "start"
  /\ IF e_cmd = "delete" THEN e_pc' = "delGetRules" /\ UNCHANGED e_out
     ELSE IF ~e_opts.fileOk
       THEN e_pc' = "done" /\ e_out' = e_out \cup {"file not found"}
     ELSE IF ~e_opts.fnOk
       THEN e_pc' = "done" /\ e_out' = e_out \cup {"function not found"}
     ELSE e_pc' = "evaluatorExists" /\ UNCHANGED e_out
  /\ UNCHANGED <<e_cmd, e_opts, e_rules, e_known, e_ids, e_requests, e_answer>>
  /\ UNCHANGED notEval

\* createCodePayload, lines 249-267: evaluatorExists (a GET of the rules).
EvalExists ==
  /\ e_pc = "evaluatorExists"
  /\ e_requests' = Append(e_requests, Get)
  /\ \E ok \in BOOLEAN :
       IF ~ok THEN e_pc' = "failed" /\ UNCHANGED e_out
       ELSE IF TheName \notin e_rules
         THEN e_pc' = "resolveDataset" /\ UNCHANGED e_out
       ELSE IF ~e_opts.replace
         THEN e_pc' = "done" /\ e_out' = e_out \cup {"already exists"}
       ELSE IF ReplaceConfirm(e_opts)
         THEN e_pc' = "replacePrompt" /\ e_out' = e_out \cup {"already exists"}
       ELSE e_pc' = "delGetRules" /\ UNCHANGED e_out
  /\ UNCHANGED <<e_cmd, e_opts, e_rules, e_known, e_ids, e_answer>>
  /\ UNCHANGED notEval

\* createCodePayload, lines 262-268: "Replace existing evaluator?"
EvalReplacePrompt ==
  /\ e_pc = "replacePrompt"
  /\ \E a \in Answers :
       /\ e_answer' = Append(e_answer, a)
       /\ IF promptConfirm(a)
            THEN e_pc' = "delGetRules" /\ UNCHANGED e_out
            ELSE e_pc' = "done" /\ e_out' = e_out \cup {"upload cancelled"}
  /\ UNCHANGED <<e_cmd, e_opts, e_rules, e_known, e_ids, e_requests>>
  /\ UNCHANGED notEval

\* deleteEvaluator, lines 150-158: getRules and the search for the rule.
EvalDelGetRules ==
  /\ e_pc = "delGetRules"
  /\ e_requests' = Append(e_requests, Get)
  /\ \E ok \in BOOLEAN :
       IF ~ok THEN e_pc' = "failed" /\ UNCHANGED e_out
       ELSE IF TheName \notin e_rules
         THEN /\ e_out' = e_out \cup {"not found"}
              /\ e_pc' = IF e_cmd = "delete" THEN "done" ELSE "resolveDataset"
       ELSE IF DeleteConfirm(e_cmd, e_opts)
         THEN e_pc' = "delPrompt" /\ e_out' = e_out \cup {"about to delete"}
       ELSE e_pc' = "delSend" /\ UNCHANGED e_out
  /\ UNCHANGED <<e_cmd, e_opts, e_rules, e_known, e_ids, e_answer>>
  /\ UNCHANGED notEval

\* deleteEvaluator, lines 158-165: "Are you sure?"
EvalDelPrompt ==
  /\ e_pc = "delPrompt"
  /\ \E a \in Answers :
       /\ e_answer' = Append(e_answer, a)
       /\ IF promptConfirm(a)
            THEN e_pc' = "delSend" /\ UNCHANGED e_out
            ELSE e_pc' = "done" /\ e_out' = e_out \cup {"deletion cancelled"}
  /\ UNCHANGED <<e_cmd, e_opts, e_rules, e_known, e_ids, e_requests>>
  /\ UNCHANGED notEval

\* deleteEvaluator, lines 167-178: the DELETE request; a response that is not
\* ok throws.
EvalDelSend ==
  /\ e_pc = "delSend"
  /\ e_requests' = Append(e_requests, Delete)
  /\ \E ok \in BOOLEAN :
       IF ok
         THEN /\ e_rules' = e_rules \ {TheName}
              /\ e_out' = e_out \cup {"deleted"}
              /\ e_pc' = IF e_cmd = "delete" THEN "done" ELSE "resolveDataset"
         ELSE e_pc' = "failed" /\ UNCHANGED <<e_rules, e_out>>
  /\ UNCHANGED <<e_cmd, e_opts, e_known, e_ids, e_answer>>
  /\ UNCHANGED notEval

\* createCodePayload, lines 276-281, and resolveDatasetId.
EvalResolveDataset ==
  /\ e_pc = "resolveDataset"
  /\ IF ~e_opts.dataset THEN UNCHANGED <<e_ids, e_out>>
     ELSE \E ok \in BOOLEAN :
       IF ok /\ e_known.dataset
         THEN e_ids' = [e_ids EXCEPT !.dataset = "D"] /\ UNCHANGED e_out
         ELSE e_out' = e_out \cup {"dataset not found"} /\ UNCHANGED e_ids
  /\ e_pc' = "resolveProject"
  /\ UNCHANGED <<e_cmd, e_opts, e_rules, e_known, e_requests, e_answer>>
  /\ UNCHANGED notEval

\* createCodePayload, lines 283-296, and resolveProjectId.
EvalResolveProject ==
  /\ e_pc = "resolveProject"
  /\ IF ~e_opts.project THEN UNCHANGED <<e_ids, e_out>>
     ELSE \E ok \in BOOLEAN :
       IF ok /\ e_known.project
         THEN e_ids' = [e_ids EXCEPT !.project = "P"] /\ UNCHANGED e_out
         ELSE e_out' = e_out \cup {"project not found"} /\ UNCHANGED e_ids
  /\ e_pc' = "create"
  /\ UNCHANGED <<e_cmd, e_opts, e_rules, e_known, e_requests, e_answer>>
  /\ UNCHANGED notEval

\* createEvaluator, lines 299-336: the POST request.
EvalCreate ==
  /\ e_pc = "create"
  /\ e_requests' = Append(e_requests, Post(e_ids))
  /\ \E ok \in BOOLEAN :
       IF ok
         THEN e_rules' = e_rules \cup {TheName} /\ e_out' = e_out \cup {"uploaded"}
         ELSE e_out' = e_out \cup {"upload failed"} /\ UNCHANGED e_rules
  /\ e_pc' = "done"
  /\ UNCHANGED <<e_cmd, e_opts, e_known, e_ids, e_answer>>
  /\ UNCHANGED notEval


(***************************************************************************)
(* generate_datasets.ts: loadTracesFromFile, loadTracesFromDir, sortTraces. *)
(* JSON values: a missing key is JAbsent, null is JNull; a start_time that  *)
(* is no Date is NoTime.                                                    *)
(***************************************************************************)
JNull == "<null>"
JAbsent == "<undefined>"
NoTime == -1
MaxLines == 2

\* JavaScript truthiness of a string-or-null value
Truthy(v) == v \notin {JNull, JAbsent, ""}

FileNames == <<"a", "b">>
Dir == "<dir>"
SortOrders == {"newest", "oldest", "alphabetical", "reverse-alphabetical"}

\* localeCompare on the trace ids that occur
StrRank(s) ==
  CASE s = "a" -> 1
    [] s = "b" -> 2
    [] s = "t1" -> 3
    [] s = "unknown" -> 4
    [] OTHER -> 5

BlankLine ==
  [blank |-> TRUE, trace_id |-> JAbsent, parent_run_id |-> JAbsent,
   start_time |-> NoTime]

RunLines ==
  [blank : {FALSE}, trace_id : {JAbsent, "t1", "unknown"},
   parent_run_id : {JNull, JAbsent, "p"}, start_time : {NoTime, 1}]

FileLines == {BlankLine} \cup RunLines

\* The runs carry where they were read from: run_id = <<file, line number>>.
WithIds(file, lines) ==
  [i \in DOMAIN lines |->
     [run_id |-> <<file, i>>, blank |-> lines[i].blank,
      trace_id |-> lines[i].trace_id,
      parent_run_id |-> lines[i].parent_run_id,
      start_time |-> lines[i].start_time]]

\* a.start_time instanceof Date ? a.start_time.getTime() : 0
TimeOf(run) == IF run.start_time = NoTime THEN 0 ELSE run.start_time

\* Array.prototype.sort with a comparator key(a) - key(b): ascending in the
\* key, elements of equal key keeping their order.
StableSort(items, keys) ==
  LET n == Len(items)
      pos(i) == Cardinality({j \in 1..n : \/ keys[j] < keys[i]
                                          \/ keys[j] = keys[i] /\ j < i}) + 1
  IN [k \in 1..n |-> items[CHOOSE i \in 1..n : pos(i) = k]]

IndexOfTrace(acc, traceId) ==
  IF \E i \in DOMAIN acc : acc[i].trace_id = traceId
    THEN CHOOSE i \in DOMAIN acc : acc[i].trace_id = traceId
    ELSE 0

\* Lines 153-162 (89-99): the loop over the lines, filling runsByTrace; a Map
\* keeps its keys in insertion order.
RECURSIVE groupRuns_DropNoTrace(_, _, _)
groupRuns_DropNoTrace(lines, fallback, acc) ==
  IF lines = <<>> THEN acc
  ELSE LET line == Head(lines)
           idx == IndexOfTrace(acc, line.trace_id)
       IN  IF line.blank \/ ~Truthy(line.trace_id)
             THEN groupRuns_DropNoTrace(Tail(lines), fallback, acc)
           ELSE IF idx = 0
             THEN groupRuns_DropNoTrace(Tail(lines), fallback,
                    Append(acc, [trace_id |-> line.trace_id, runs |-> <<line>>]))
           ELSE groupRuns_DropNoTrace(Tail(lines), fallback,
                    [acc EXCEPT ![idx].runs = Append(@, line)])

RECURSIVE groupRuns(_, _, _)
groupRuns(lines, fallback, acc) ==
  IF lines = <<>> THEN acc
  ELSE LET line == Head(lines)
           traceId == IF Truthy(line.trace_id) THEN line.trace_id ELSE fallback
           idx == IndexOfTrace(acc, traceId)
       IN  IF line.blank
             THEN groupRuns(Tail(lines), fallback, acc)
           ELSE IF idx = 0
             THEN groupRuns(Tail(lines), fallback,
                    Append(acc, [trace_id |-> traceId, runs |-> <<line>>]))
           ELSE groupRuns(Tail(lines), fallback,
                    [acc EXCEPT ![idx].runs = Append(@, line)])

\* runs.find((r) => !r.parent_run_id) || runs[0]
findRoot_Last(runs) ==
  LET orphans == {i \in DOMAIN runs : ~Truthy(runs[i].parent_run_id)}
  IN  IF orphans # {}
        THEN runs[CHOOSE i \in orphans : \A j \in orphans : i >= j]
        ELSE runs[1]

findRoot(runs) ==
  LET orphans == {i \in DOMAIN runs : ~Truthy(runs[i].parent_run_id)}
  IN  IF orphans # {}
        THEN runs[CHOOSE i \in orphans : \A j \in orphans : i <= j]
        ELSE runs[1]

\* Lines 164-169 (101-106): one TraceData per key of runsByTrace.
buildTraces(groups) ==
  [i \in DOMAIN groups |->
     [trace_id |-> groups[i].trace_id, root |-> findRoot(groups[i].runs),
      runs |-> groups[i].runs]]

sortTraces(traces, sort) ==
  CASE sort = "newest" ->
         StableSort(traces, [i \in DOMAIN traces |-> 0 - TimeOf(traces[i].root)])
    [] sort = "oldest" ->
         StableSort(traces, [i \in DOMAIN traces |-> TimeOf(traces[i].root)])
    [] sort = "alphabetical" ->
         StableSort(traces, [i \in DOMAIN traces |-> StrRank(traces[i].trace_id)])
    [] sort = "reverse-alphabetical" ->
         StableSort(traces, [i \in DOMAIN traces |-> 0 - StrRank(traces[i].trace_id)])
    [] OTHER -> traces

loadTracesFromFile(file, lines, sort) ==
  sortTraces(buildTraces(groupRuns(WithIds(file, lines), "unknown", <<>>)), sort)

\* The .jsonl files in sorted order, each grouped on its own with its base
\* name as the fallback key.
RECURSIVE loadFiles(_, _)
loadFiles(names, files) ==
  IF names = <<>> THEN <<>>
  ELSE buildTraces(groupRuns(WithIds(Head(names), files[Head(names)]),
                             Head(names), <<>>))
       \o loadFiles(Tail(names), files)

loadTracesFromDir(files, sort) == sortTraces(loadFiles(FileNames, files), sort)

LoadStart ==
  /\ l_pc = "start"
  /\ \E lines \in SeqsUpTo(FileLines, MaxLines) :
       \E k \in 0..Len(lines) :
         l_files = [f \in Range(FileNames) |->
                      IF f = FileNames[1] THEN SubSeq(lines, 1, k)
                      ELSE SubSeq(lines, k + 1, Len(lines))]
  /\ l_input = "none"
  /\ l_sort = "none"
  /\ l_traces = <<>>

LoadIdle ==
  /\ l_pc = "idle"
  /\ l_files = [f \in Range(FileNames) |-> <<>>]
  /\ l_input = "none"
  /\ l_sort = "none"
  /\ l_traces = <<>>

\* --input names one .jsonl file (line 849).
LoadFile ==
  /\ l_pc = "start"
  /\ \E f \in Range(FileNames), sort \in SortOrders :
       /\ l_input' = f
       /\ l_sort' = sort
       /\ l_traces' = loadTracesFromFile(f, l_files[f], sort)
  /\ l_pc' = "loaded"
  /\ UNCHANGED l_files
  /\ UNCHANGED notLoad

\* --input names the directory (line 847).
LoadDir ==
  /\ l_pc = "start"
  /\ \E sort \in SortOrders :
       /\ l_input' = Dir
       /\ l_sort' = sort
       /\ l_traces' = loadTracesFromDir(l_files, sort)
  /\ l_pc' = "loaded"
  /\ UNCHANGED l_files
  /\ UNCHANGED notLoad


(***************************************************************************)
(* The run hierarchy: extractToolSequence's parentMap and getDepth          *)
(* (generate_datasets.ts), printTree (query_traces.ts).                     *)
(***************************************************************************)
MaxRuns == 3
Overrun == 2

RunIds == <<"r1", "r2", "r3", "r4", "r5">>
ParentIds == {JNull, "r1", "r2", "rX"}

HierRuns ==
  UNION {{[i \in 1..n |-> [run_id |-> RunIds[i], parent_run_id |-> ps[i],
                           start_time |-> ts[i]]] :
            ps \in [1..n -> ParentIds], ts \in [1..n -> {NoTime, 1}]} :
         n \in 1..MaxRuns}

\* Lines 409-413: parentMap.set(runId, r.parent_run_id || null), a later
\* run of the same id replacing an earlier one.
parentMap(runs) ==
  [id \in {runs[i].run_id : i \in DOMAIN runs} |->
     LET last == CHOOSE i \in DOMAIN runs :
                   /\ runs[i].run_id = id
                   /\ \A j \in DOMAIN runs : runs[j].run_id = id => j <= i
     IN  IF Truthy(runs[last].parent_run_id) THEN runs[last].parent_run_id
         ELSE JNull]

\* parentMap.get(current) || null
mapGet(map, key) == IF key \in DOMAIN map /\ Truthy(map[key]) THEN map[key] ELSE JNull

\* while (current && parentMap.get(current))
whileCond_CountSelf(map, current) == Truthy(current)

whileCond(map, current) == Truthy(current) /\ Truthy(mapGet(map, current))

HierStart ==
  /\ h_pc \in {"depth", "tree"}
  /\ h_runs \in HierRuns
  /\ h_target = JNull
  /\ h_current = JNull
  /\ h_d = 0
  /\ h_depths = <<>>
  /\ h_stack = <<>>
  /\ h_visited = {}
  /\ h_printed = <<>>
  /\ h_iter = 0

HierIdle ==
  /\ h_pc = "idle"
  /\ h_runs = <<>>
  /\ h_target = JNull
  /\ h_current = JNull
  /\ h_d = 0
  /\ h_depths = <<>>
  /\ h_stack = <<>>
  /\ h_visited = {}
  /\ h_printed = <<>>
  /\ h_iter = 0

\* getDepth(runId), lines 415-417, called for the runs in turn.
GetDepthCall ==
  /\ h_pc = "depth"
  /\ Len(h_depths) < Len(h_runs)
  /\ h_target' = h_runs[Len(h_depths) + 1].run_id
  /\ h_current' = h_runs[Len(h_depths) + 1].run_id
  /\ h_d' = 0
  /\ h_pc' = "inDepth"
  /\ UNCHANGED <<h_runs, h_depths, h_stack, h_visited, h_printed, h_iter>>
  /\ UNCHANGED notHier

\* One iteration of the while loop, lines 418-421.
GetDepthLoop ==
  /\ h_pc = "inDepth"
  /\ whileCond(parentMap(h_runs), h_current)
  /\ h_d < Len(h_runs) + Overrun
  /\ h_d' = h_d + 1
  /\ h_current' = mapGet(parentMap(h_runs), h_current)
  /\ UNCHANGED <<h_pc, h_runs, h_target, h_depths, h_stack, h_visited,
                 h_printed, h_iter>>
  /\ UNCHANGED notHier

\* return d, line 422.
GetDepthReturn ==
  /\ h_pc = "inDepth"
  /\ ~whileCond(parentMap(h_runs), h_current)
  /\ h_depths' = Append(h_depths, h_d)
  /\ h_pc' = IF Len(h_depths') = Len(h_runs) THEN "done" ELSE "depth"
  /\ UNCHANGED <<h_runs, h_target, h_current, h_d, h_stack, h_visited,
                 h_printed, h_iter>>
  /\ UNCHANGED notHier

\* A filter that lets every run through.
children_Unfiltered(runs, parentId) ==
  StableSort(runs, [k \in DOMAIN runs |-> TimeOf(runs[k])])

\* printTree, lines 307-316: the runs whose parent is parentId, by start time.
children(runs, parentId) ==
  LET idx == {i \in DOMAIN runs :
                (IF Truthy(runs[i].parent_run_id) THEN runs[i].parent_run_id
                 ELSE JNull) = parentId}
      sel == [k \in 1..Cardinality(idx) |->
                runs[CHOOSE i \in idx : Cardinality({j \in idx : j < i}) = k - 1]]
  IN  StableSort(sel, [k \in DOMAIN sel |-> TimeOf(sel[k])])

\* Run lists in which a run id may occur more than once and the parent links
\* may form a cycle.
MaxTreeRuns == 3

TreeRuns(n) ==
  [1..n -> [run_id : {"r1", "r2", "r3"}, parent_run_id : {JNull, "r1", "r2", "r3"},
            start_time : {1}]]

TreeStart ==
  /\ h_pc = "tree"
  /\ \E n \in 1..MaxTreeRuns : h_runs \in TreeRuns(n)
  /\ h_target = JNull
  /\ h_current = JNull
  /\ h_d = 0
  /\ h_depths = <<>>
  /\ h_stack = <<>>
  /\ h_visited = {}
  /\ h_printed = <<>>
  /\ h_iter = 0

\* The traces get action, lines 626-632: printTree(runs, root.id, 1) for a
\* run whose parent_run_id is null.
PrintTreeCall ==
  /\ h_pc = "tree"
  /\ \E i \in DOMAIN h_runs :
       /\ h_runs[i].parent_run_id = JNull
       /\ h_target' = h_runs[i].run_id
       /\ h_stack' = <<[children |-> children(h_runs, h_runs[i].run_id),
                        i |-> 1, indent |-> 1]>>
  /\ h_pc' = "inTree"
  /\ UNCHANGED <<h_runs, h_current, h_d, h_depths, h_visited,
                 h_printed, h_iter>>
  /\ UNCHANGED notHier

\* One iteration of for (const run of children), lines 318-336: skip a run
\* already visited, else render it and call printTree for its children.
PrintTreeLoop ==
  /\ h_pc = "inTree"
  /\ h_stack # <<>>
  /\ LET top == h_stack[Len(h_stack)] IN
       /\ top.i <= Len(top.children)
       /\ LET run == top.children[top.i]
              rest == [h_stack EXCEPT ![Len(h_stack)].i = top.i + 1]
          IN  IF run.run_id \in h_visited
                THEN /\ h_stack' = rest
                     /\ UNCHANGED <<h_visited, h_printed>>
                ELSE /\ h_visited' = h_visited \cup {run.run_id}
                     /\ h_printed' = Append(h_printed, <<run.run_id, top.indent>>)
                     /\ h_stack' = Append(rest,
                                     [children |-> children(h_runs, run.run_id),
                                      i |-> 1, indent |-> top.indent + 1])
  /\ h_iter' = h_iter + 1
  /\ UNCHANGED <<h_pc, h_runs, h_target, h_current, h_d, h_depths>>
  /\ UNCHANGED notHier

\* The for-loop of the innermost call is over: the call returns.
PrintTreeReturn ==
  /\ h_pc = "inTree"
  /\ h_stack # <<>>
  /\ LET top == h_stack[Len(h_stack)] IN top.i > Len(top.children)
  /\ h_stack' = SubSeq(h_stack, 1, Len(h_stack) - 1)
  /\ h_pc' = IF Len(h_stack) = 1 THEN "done" ELSE "inTree"
  /\ UNCHANGED <<h_runs, h_target, h_current, h_d, h_depths, h_visited,
                 h_printed, h_iter>>
  /\ UNCHANGED notHier


(***************************************************************************)
(* generate_datasets.ts: extractFromMessages and extractValue.  A JSON      *)
(* value is [t, s, a]: its type, its text (for a scalar) and its elements   *)
(* (for the messages array).                                                *)
(***************************************************************************)
MaxMsgs == 1

JV(t, s) == [t |-> t, s |-> s, a |-> <<>>]
Undefined == JV("undefined", "")
Null == JV("null", "")
False == JV("boolean", "false")
Zero == JV("number", "0")
Str(x) == JV("string", x)
EmptyObject == JV("object", "{}")
WholeData == JV("object", "<data>")
Array(elems) == [t |-> "array", s |-> "", a |-> elems]

\* if (v): JavaScript truthiness
truthy(v) ==
  CASE v.t \in {"undefined", "null"} -> FALSE
    [] v.t = "boolean" -> v.s = "true"
    [] v.t = "number" -> v.s \notin {"0", "NaN"}
    [] v.t = "string" -> v.s # ""
    [] OTHER -> TRUE

COMMON_INPUT_FIELDS == <<"query", "input", "question", "message", "prompt", "text">>
COMMON_OUTPUT_FIELDS == <<"answer", "output", "response", "result">>

\* data[field]
fieldOf(data, field) ==
  IF \E i \in DOMAIN data.entries : data.entries[i].k = field
    THEN data.entries[CHOOSE i \in DOMAIN data.entries : data.entries[i].k = field].v
    ELSE Undefined

Has(data, field) == \E i \in DOMAIN data.entries : data.entries[i].k = field

\* A message: an object [type, role, content] or a plain string.
Messages ==
  { [isString |-> FALSE, type |-> "human", role |-> JAbsent, content |-> "hi"],
    [isString |-> FALSE, type |-> JAbsent, role |-> "user", content |-> JAbsent],
    [isString |-> FALSE, type |-> "ai", role |-> JAbsent, content |-> "answer"],
    [isString |-> FALSE, type |-> "ai", role |-> JAbsent, content |-> ""],
    [isString |-> FALSE, type |-> JAbsent, role |-> "assistant", content |-> "None"],
    [isString |-> TRUE, type |-> JAbsent, role |-> JAbsent, content |-> "raw"] }

\* m.content || ""
contentOf(m) == IF Truthy(m.content) THEN m.content ELSE ""

\* Lines 240-251: the first human message (or the first plain string).
RECURSIVE firstHuman(_)
firstHuman(messages) ==
  IF messages = <<>> THEN Null
  ELSE LET m == Head(messages) IN
       IF ~m.isString /\ (m.type = "human" \/ m.role = "user") THEN Str(contentOf(m))
       ELSE IF m.isString THEN Str(m.content)
       ELSE firstHuman(Tail(messages))

\* The backward walk without the test of the content.
RECURSIVE lastAi_AnyContent(_)
lastAi_AnyContent(messages) ==
  IF messages = <<>> THEN Null
  ELSE LET m == messages[Len(messages)] IN
       IF ~m.isString /\ (m.type = "ai" \/ m.role = "assistant")
         THEN Str(contentOf(m))
         ELSE lastAi_AnyContent(SubSeq(messages, 1, Len(messages) - 1))

\* Lines 251-263: the last AI message whose content is neither empty nor "None".
RECURSIVE lastAi(_)
lastAi(messages) ==
  IF messages = <<>> THEN Null
  ELSE LET m == messages[Len(messages)] IN
       IF /\ ~m.isString
          /\ (m.type = "ai" \/ m.role = "assistant")
          /\ contentOf(m) # "" /\ contentOf(m) # "None"
         THEN Str(contentOf(m))
         ELSE lastAi(SubSeq(messages, 1, Len(messages) - 1))

\* Lines 263-271: the last message's content, or its JSON text.
lastMessage(messages) ==
  IF messages = <<>> THEN Null
  ELSE LET m == messages[Len(messages)] IN
       IF m.isString THEN Str(m.content)
       ELSE IF Truthy(m.content) THEN Str(m.content)
       ELSE Str("<json>")

extractFromMessages(messages, role) ==
  IF role \in {"human", "user"} THEN firstHuman(messages)
  ELSE IF role \in {"ai", "assistant"} THEN lastAi(messages)
  ELSE lastMessage(messages)

\* for (const field of fields) if (data[field]) return data[field]
RECURSIVE firstTruthyField(_, _)
firstTruthyField(data, fields) ==
  IF fields = <<>> THEN Undefined
  ELSE IF truthy(fieldOf(data, Head(fields))) THEN fieldOf(data, Head(fields))
  ELSE firstTruthyField(data, Tail(fields))

\* Lines 307-318: the raw fallback over Object.values(data).
rawFallback(data) ==
  LET values == [i \in DOMAIN data.entries |-> data.entries[i].v]
      strings == {i \in DOMAIN values : values[i].t = "string" /\ truthy(values[i])}
  IN  IF Len(values) = 1 /\ values[1].t = "string" THEN values[1]
      ELSE IF strings # {} THEN values[CHOOSE i \in strings : \A j \in strings : i <= j]
      ELSE IF values = <<>> THEN EmptyObject
      ELSE WholeData

\* The message content extractValue returns at priority 2, Undefined when
\* there is none.
fromMessages(data, messageRole) ==
  LET m == fieldOf(data, "messages") IN
  IF truthy(m) /\ m.t = "array" /\ truthy(extractFromMessages(m.a, messageRole))
    THEN extractFromMessages(m.a, messageRole)
    ELSE Undefined

extractValue(data, fields, commonFields, messageRole, fallbackToRaw) ==
  IF data.null THEN Null
  ELSE IF truthy(firstTruthyField(data, fields))
    THEN firstTruthyField(data, fields)
  ELSE IF truthy(fromMessages(data, messageRole))
    THEN fromMessages(data, messageRole)
  ELSE IF truthy(firstTruthyField(data, commonFields))
    THEN firstTruthyField(data, commonFields)
  ELSE IF fallbackToRaw THEN rawFallback(data)
  ELSE Null

\* The payloads: up to three keys in any insertion order, a requested key
\* ("custom"), a common key ("query") and "messages".
CustomValues == {Null, False, Zero, Str(""), Str("c"), EmptyObject}
QueryValues == {Null, Zero, Str(""), Str("q")}
MessageArrays == {Array(a) : a \in SeqsUpTo(Messages, MaxMsgs)}

ValuesOf(key) ==
  CASE key = "custom" -> CustomValues
    [] key = "query" -> QueryValues
    [] OTHER -> MessageArrays

KeyOrders ==
  {ks \in SeqsUpTo({"custom", "query", "messages"}, 3) :
     \A i, j \in DOMAIN ks : i # j => ks[i] # ks[j]}

Payloads ==
  UNION {{[null |-> FALSE, entries |-> [i \in DOMAIN ks |-> [k |-> ks[i], v |-> vs[i]]]] :
            vs \in {f \in [DOMAIN ks -> CustomValues \cup QueryValues \cup MessageArrays] :
                      \A i \in DOMAIN ks : f[i] \in ValuesOf(ks[i])}} :
         ks \in KeyOrders}

ExtractStart ==
  /\ x_pc = "start"
  /\ x_data \in Payloads \cup {[null |-> TRUE, entries |-> <<>>]}
  /\ x_fields \in {<<>>, <<"custom">>, <<"other", "custom">>}
  /\ x_common \in {<<>>, COMMON_INPUT_FIELDS}
  /\ x_role \in {"human", "ai", JAbsent}
  /\ x_fallback \in BOOLEAN
  /\ x_result = Undefined

ExtractIdle ==
  /\ x_pc = "idle"
  /\ x_data = [null |-> TRUE, entries |-> <<>>]
  /\ x_fields = <<>>
  /\ x_common = <<>>
  /\ x_role = JAbsent
  /\ x_fallback = FALSE
  /\ x_result = Undefined

\* One call of extractValue.
ExtractValueCall ==
  /\ x_pc = "start"
  /\ x_result' = extractValue(x_data, x_fields, x_common, x_role, x_fallback)
  /\ x_pc' = "returned"
  /\ UNCHANGED <<x_data, x_fields, x_common, x_role, x_fallback>>
  /\ UNCHANGED notExtract


(***************************************************************************)
(* generate_datasets.ts exportToFile (CSV branch) and query_datasets.ts    *)
(* view-file (CSV branch).  Text is a sequence of characters.              *)
(***************************************************************************)
MaxExamples == 2

CsvKeys == {"a", "b"}

\* String.prototype.split(sep) for a one-character separator
RECURSIVE split(_, _)
split(s, sep) ==
  IF \A i \in DOMAIN s : s[i] # sep THEN <<s>>
  ELSE LET i == CHOOSE k \in DOMAIN s : s[k] = sep /\ \A j \in 1..(k - 1) : s[j] # sep
       IN  <<SubSeq(s, 1, i - 1)>> \o split(SubSeq(s, i + 1, Len(s)), sep)

\* Array.prototype.join(sep)
RECURSIVE join(_, _)
join(parts, sep) ==
  IF parts = <<>> THEN <<>>
  ELSE IF Len(parts) = 1 THEN parts[1]
  ELSE parts[1] \o <<sep>> \o join(Tail(parts), sep)

\* str.replace(/"/g, '""')
RECURSIVE doubleQuotes(_)
doubleQuotes(s) ==
  IF s = <<>> THEN <<>>
  ELSE IF Head(s) = "\"" THEN <<"\"", "\"">> \o doubleQuotes(Tail(s))
  ELSE <<Head(s)>> \o doubleQuotes(Tail(s))

includes(s, c) == \E i \in DOMAIN s : s[i] = c

\* Array.prototype.filter
RECURSIVE filterNonBlank(_)
filterNonBlank(lines) ==
  IF lines = <<>> THEN <<>>
  ELSE IF trim(Head(lines)) # <<>> THEN <<Head(lines)>> \o filterNonBlank(Tail(lines))
  ELSE filterNonBlank(Tail(lines))

\* The value of a key in an example: absent, null, a string, or an object
\* (text is then its JSON.stringify text).
CsvAbsent == [kind |-> "absent", text |-> <<>>]
CsvNull == [kind |-> "null", text |-> <<>>]
CsvString(text) == [kind |-> "string", text |-> text]
CsvObject == [kind |-> "object", text |-> <<"{", "\"", "k", "\"", ":", "1", "}">>]

CsvValues ==
  {CsvAbsent, CsvNull, CsvObject} \cup
  {CsvString(t) : t \in {<<>>, <<"x">>, <<"x", ",", "y">>, <<"\"">>, <<"x", "\n", "y">>}}

\* typeof val === "object" ? JSON.stringify(val) : String(val), "" for
\* undefined and null
stringify(val) == IF val.kind \in {"absent", "null"} THEN <<>> ELSE val.text

\* One cell of a row (lines 703-710).
csvCell(val) ==
  LET str == stringify(val) IN
  IF includes(str, ",") \/ includes(str, "\"") \/ includes(str, "\n")
    THEN <<"\"">> \o doubleQuotes(str) \o <<"\"">>
    ELSE str

\* Array.from(allKeys).sort()
fieldnames(dataset) ==
  LET allKeys == {k \in CsvKeys : \E i \in DOMAIN dataset : dataset[i][k].kind # "absent"}
  IN  CHOOSE names \in [1..Cardinality(allKeys) -> allKeys] :
        \A i, j \in DOMAIN names : i < j => StrRank(names[i]) < StrRank(names[j])

\* The text exportToFile writes for a non-empty dataset.
csvText(dataset) ==
  LET names == fieldnames(dataset)
      header == join([j \in DOMAIN names |-> <<names[j]>>], ",")
      rowOf(ex) == join([j \in DOMAIN names |-> csvCell(ex[names[j]])], ",")
  IN  join(<<header>> \o [i \in DOMAIN dataset |-> rowOf(dataset[i])], "\n")

\* The rows view-file builds from a file's content (lines 201-216); <<>> for
\* an "Empty CSV file".
readCsv(content) ==
  LET lines == filterNonBlank(split(content, "\n")) IN
  IF lines = <<>> THEN <<>>
  ELSE LET headers == split(lines[1], ",") IN
       [i \in 1..(Len(lines) - 1) |->
          LET values == split(lines[i + 1], ",") IN
          [j \in DOMAIN headers |->
             [k |-> headers[j],
              v |-> IF j <= Len(values) THEN values[j] ELSE <<>>]]]

CsvStart ==
  /\ c_pc = "start"
  /\ c_dataset \in SeqsUpTo([CsvKeys -> CsvValues], MaxExamples)
  /\ c_file = [exists |-> FALSE, content |-> <<>>]
  /\ c_rows = <<>>

CsvIdle ==
  /\ c_pc = "idle"
  /\ c_dataset = <<>>
  /\ c_file = [exists |-> FALSE, content |-> <<>>]
  /\ c_rows = <<>>

\* exportToFile(dataset, "<name>.csv")
CsvExport ==
  /\ c_pc = "start"
  /\ c_file' = IF c_dataset = <<>> THEN c_file
               ELSE [exists |-> TRUE, content |-> csvText(c_dataset)]
  /\ c_pc' = "exported"
  /\ UNCHANGED <<c_dataset, c_rows>>
  /\ UNCHANGED notCsv

\* query_datasets view-file <name>.csv
CsvView ==
  /\ c_pc = "exported"
  /\ c_file.exists
  /\ c_rows' = readCsv(c_file.content)
  /\ c_pc' = "viewed"
  /\ UNCHANGED <<c_dataset, c_file>>
  /\ UNCHANGED notCsv


(***************************************************************************)
(* generate_datasets.ts: extractTraceInputs, extractToolSequence and the   *)
(* trajectory branch of generateDataset.                                   *)
(***************************************************************************)
MaxTrajRuns == 2

NoDepth == -1
Diverges == -2

\* getDepth's while loop from `current` with d iterations done: the d it
\* returns, or Diverges when the loop comes back to a run it has left, after
\* which it never exits.
RECURSIVE walk(_, _, _, _)
walk(map, current, d, seen) ==
  IF ~whileCond(map, current) THEN d
  ELSE IF current \in seen THEN Diverges
  ELSE walk(map, mapGet(map, current), d + 1, seen \cup {current})

getDepth(map, runId) == walk(map, runId, 0, {})

Unknown == <<"u", "n", "k", "n", "o", "w", "n">>

\* (r.name || "unknown").toLowerCase()
toolName(run) == toLowerCase(IF run.name = <<>> THEN Unknown ELSE run.name)

\* Array.prototype.filter, keeping the order
RECURSIVE filterTools(_, _, _)
filterTools(sortedRuns, map, depth) ==
  IF sortedRuns = <<>> THEN <<>>
  ELSE LET r == Head(sortedRuns) IN
       IF r.run_type = "tool" /\ (depth = NoDepth \/ getDepth(map, r.run_id) <= depth)
         THEN <<toolName(r)>> \o filterTools(Tail(sortedRuns), map, depth)
         ELSE filterTools(Tail(sortedRuns), map, depth)

\* extractToolSequence(runs, depth): hangs when a getDepth it calls never
\* returns, else the tool names.
extractToolSequence(runs, depth) ==
  LET map == parentMap(runs)
      sortedRuns == StableSort(runs, [i \in DOMAIN runs |-> TimeOf(runs[i])])
  IN  IF /\ depth # NoDepth
         /\ \E i \in DOMAIN runs :
              runs[i].run_type = "tool" /\ getDepth(map, runs[i].run_id) = Diverges
        THEN [hangs |-> TRUE, tools |-> <<>>]
        ELSE [hangs |-> FALSE, tools |-> filterTools(sortedRuns, map, depth)]

\* extractTraceInputs(root, inputFields, asDict); inputFields is
\* [given, names].
extractTraceInputs(inputs, inputFields, asDict) ==
  IF inputs.null \/ inputs.entries = <<>>
    THEN (IF asDict THEN EmptyObject ELSE Null)
  ELSE IF inputFields.given
    THEN extractValue(inputs, inputFields.names, COMMON_INPUT_FIELDS, "human", TRUE)
  ELSE IF asDict THEN WholeData
  ELSE extractValue(inputs, <<>>, COMMON_INPUT_FIELDS, "human", TRUE)

\* typeof v === "object" for a non-null v
isObject(v) == v.t \in {"object", "array"}

\* Lines 610-616: the check that skips a trace; Object.keys of an array are
\* its indices.
skipsInputs(rootInputs) ==
  \/ ~truthy(rootInputs)
  \/ rootInputs.t = "object" /\ rootInputs.s = "{}"
  \/ rootInputs.t = "array" /\ rootInputs.a = <<>>

\* Lines 618-623: inputs, [wrapped, value]: {expected_input: value} when
\* wrapped, else value itself.
exampleInputs(rootInputs, inputFields) ==
  [wrapped |-> inputFields.given /\ ~isObject(rootInputs), value |-> rootInputs]

\* Lines 604-623 and 659-664 for one trace: the examples it adds.
trajectoryExample(trace, options) ==
  LET rootInputs == extractTraceInputs(trace.inputs, options.inputFields,
                                       ~options.inputFields.given)
      tools == extractToolSequence(trace.runs, options.depth).tools
  IN  IF skipsInputs(rootInputs) \/ tools = <<>> THEN <<>>
      ELSE <<[trace_id |-> trace.trace_id,
              inputs |-> exampleInputs(rootInputs, options.inputFields),
              expected_trajectory |-> tools]>>

\* The trace whose extractToolSequence call hangs.
traceHangs(trace, options) ==
  /\ ~skipsInputs(extractTraceInputs(trace.inputs, options.inputFields,
                                     ~options.inputFields.given))
  /\ extractToolSequence(trace.runs, options.depth).hangs

RECURSIVE generateDataset(_, _)
generateDataset(traces, options) ==
  IF traces = <<>> THEN <<>>
  ELSE trajectoryExample(Head(traces), options) \o generateDataset(Tail(traces), options)

\* The run lists of n runs.
TrajRuns(n) ==
  {[i \in 1..n |-> [run_id |-> RunIds[i], parent_run_id |-> f[i].p,
                    run_type |-> f[i].ty, name |-> f[i].nm,
                    start_time |-> f[i].st]] :
     f \in [1..n -> [p : {JNull, "rX"} \cup {RunIds[k] : k \in 1..n},
                     ty : {"tool", "chain"},
                     nm : {<<>>, <<"S", "e">>},
                     st : {NoTime, 1, 2}]]}

TrajInputs ==
  { [null |-> TRUE, entries |-> <<>>],
    [null |-> FALSE, entries |-> <<>>],
    [null |-> FALSE, entries |-> <<[k |-> "query", v |-> Str("q")]>>],
    [null |-> FALSE, entries |-> <<[k |-> "custom", v |-> Str("")]>>],
    [null |-> FALSE, entries |-> <<[k |-> "custom", v |-> EmptyObject],
                                   [k |-> "query", v |-> Str("q")]>>] }

\* A second trace: a root and one tool call under it.
PlainTrace ==
  [trace_id |-> "t2",
   inputs |-> [null |-> FALSE, entries |-> <<[k |-> "query", v |-> Str("q")]>>],
   runs |-> <<[run_id |-> "r1", parent_run_id |-> JNull, run_type |-> "chain",
               name |-> <<"n">>, start_time |-> 1],
              [run_id |-> "r2", parent_run_id |-> "r1", run_type |-> "tool",
               name |-> <<"S">>, start_time |-> 2]>>]

TrajStart ==
  /\ t_pc = "start"
  /\ \E n \in 1..MaxTrajRuns :
     \E runs \in TrajRuns(n), inputs \in TrajInputs, more \in {<<>>, <<PlainTrace>>} :
       t_traces = <<[trace_id |-> "t1", inputs |-> inputs, runs |-> runs]>> \o more
  /\ t_options \in [depth : {NoDepth, 0, 1},
                    inputFields : {[given |-> FALSE, names |-> <<>>],
                                   [given |-> TRUE, names |-> <<"custom">>]}]
  /\ t_dataset = <<>>

TrajIdle ==
  /\ t_pc = "idle"
  /\ t_traces = <<>>
  /\ t_options = [depth |-> NoDepth, inputFields |-> [given |-> FALSE, names |-> <<>>]]
  /\ t_dataset = <<>>

\* generateDataset(traces, "trajectory", options) returns.
TrajGenerate ==
  /\ t_pc = "start"
  /\ \A i \in DOMAIN t_traces : ~traceHangs(t_traces[i], t_options)
  /\ t_dataset' = generateDataset(t_traces, t_options)
  /\ t_pc' = "done"
  /\ UNCHANGED <<t_traces, t_options>>
  /\ UNCHANGED notTraj

\* generateDataset enters a getDepth call whose while loop never exits.
TrajHang ==
  /\ t_pc = "start"
  /\ \E i \in DOMAIN t_traces : traceHangs(t_traces[i], t_options)
  /\ t_pc' = "hung"
  /\ UNCHANGED <<t_traces, t_options, t_dataset>>
  /\ UNCHANGED notTraj

(***************************************************************************)
(* generate_datasets.ts: getNodeIo and the single_step branch of           *)
(* generateDataset.                                                        *)
(***************************************************************************)
MaxStepRuns == 3

NoCap == -1

\* [...target].sort(...) then the runs with outputs, lines 456-479.
RECURSIVE withOutputs(_)
withOutputs(sortedTarget) ==
  IF sortedTarget = <<>> THEN <<>>
  ELSE LET run == Head(sortedTarget) IN
       IF Truthy(run.outputs)
         THEN <<[node_name |-> IF Truthy(run.name) THEN run.name ELSE "unknown",
                 outputs |-> run.outputs,
                 run_id |-> run.run_id]>> \o withOutputs(Tail(sortedTarget))
         ELSE withOutputs(Tail(sortedTarget))

\* runs.filter((r) => r.name === runName), keeping the order
RECURSIVE filterByName(_, _)
filterByName(runs, runName) ==
  IF runs = <<>> THEN <<>>
  ELSE IF Head(runs).name = runName
    THEN <<Head(runs)>> \o filterByName(Tail(runs), runName)
    ELSE filterByName(Tail(runs), runName)

getNodeIo(runs, runName) ==
  LET target == IF Truthy(runName) THEN filterByName(runs, runName) ELSE runs
      sortedTarget == StableSort(target, [i \in DOMAIN target |-> TimeOf(target[i])])
  IN  withOutputs(sortedTarget)

\* options.samplePerTrace && nodeIoList.length > options.samplePerTrace
samples(nodeIoList, samplePerTrace) ==
  samplePerTrace # NoCap /\ samplePerTrace # 0 /\ Len(nodeIoList) > samplePerTrace

\* The orders [...nodeIoList].sort(() => Math.random() - 0.5) can leave the
\* list in: every permutation.
Shuffles(n) == {p \in [1..n -> 1..n] : \A i, j \in 1..n : i # j => p[i] # p[j]}

\* Lines 648-658: one example per element of sampled.
stepExamples(traceId, sampled) ==
  [idx \in DOMAIN sampled |->
     [trace_id |-> traceId, run_id |-> sampled[idx].run_id,
      node_name |-> sampled[idx].node_name, occurrence |-> idx,
      expected_output |-> sampled[idx].outputs]]

StepRuns(n) ==
  {[i \in 1..n |-> [run_id |-> RunIds[i], name |-> f[i].nm,
                    outputs |-> f[i].out, start_time |-> f[i].st]] :
     f \in [1..n -> [nm : {"model", "other"}, out : {JNull, "o"},
                     st : {NoTime, 1, 2}]]}

NoInputFields == [given |-> FALSE, names |-> <<>>]

StepStart ==
  /\ s_pc = "start"
  /\ \E n \in 1..MaxStepRuns :
     \E runs \in StepRuns(n),
        inputs \in {[null |-> FALSE, entries |-> <<>>],
                    [null |-> FALSE, entries |-> <<[k |-> "query", v |-> Str("q")]>>]} :
       s_trace = [trace_id |-> "t1", inputs |-> inputs, runs |-> runs]
  /\ s_options \in [runName : {JAbsent, "model"}, samplePerTrace : {NoCap, 0, 1, 2}]
  /\ s_dataset = <<>>

StepIdle ==
  /\ s_pc = "idle"
  /\ s_trace = [trace_id |-> "t1", inputs |-> [null |-> TRUE, entries |-> <<>>],
                runs |-> <<>>]
  /\ s_options = [runName |-> JAbsent, samplePerTrace |-> NoCap]
  /\ s_dataset = <<>>

\* generateDataset([trace], "single_step", options), lines 604-616 and
\* 634-658.
StepGenerate ==
  /\ s_pc = "start"
  /\ LET rootInputs == extractTraceInputs(s_trace.inputs, NoInputFields, TRUE)
         nodeIoList == getNodeIo(s_trace.runs, s_options.runName)
     IN  IF skipsInputs(rootInputs) \/ nodeIoList = <<>>
           THEN s_dataset' = <<>>
         ELSE IF samples(nodeIoList, s_options.samplePerTrace)
           THEN \E p \in Shuffles(Len(nodeIoList)) :
                  s_dataset' = stepExamples(s_trace.trace_id,
                                 [k \in 1..s_options.samplePerTrace |-> nodeIoList[p[k]]])
         ELSE s_dataset' = stepExamples(s_trace.trace_id, nodeIoList)
  /\ s_pc' = "done"
  /\ UNCHANGED <<s_trace, s_options>>
  /\ UNCHANGED notStep

(***************************************************************************)
(* generate_datasets.ts: extractFinalOutput, extractDocuments,             *)
(* findRetrievalData and the rag branch of generateDataset.                *)
(***************************************************************************)
MaxRagRuns == 2

NullPayload == [null |-> TRUE, entries |-> <<>>]
Payload(entries) == [null |-> FALSE, entries |-> entries]

\* String(value)
toString(v) ==
  CASE v.t \in {"string", "number", "boolean"} -> v.s
    [] v.t \in {"null", "undefined"} -> v.t
    [] OTHER -> "[object Object]"

\* JSON.stringify(value) of an object or array
jsonText(v) == IF v.t = "object" /\ v.s = "{}" THEN "{}" ELSE "<json>"

\* Lines 386-402, for one run: the text extractFinalOutput returns for it,
\* "" when it moves on to the next run.
finalOutputOf(run, outputFields) ==
  IF run.outputs.null THEN ""
  ELSE LET result == extractValue(run.outputs, outputFields, COMMON_OUTPUT_FIELDS,
                                  "ai", TRUE)
       IN  IF ~truthy(result) THEN ""
           ELSE IF result.t \in {"object", "array"} THEN jsonText(result)
           ELSE toString(result)

RECURSIVE firstFinalOutput(_, _)
firstFinalOutput(sortedRuns, outputFields) ==
  IF sortedRuns = <<>> THEN ""
  ELSE IF finalOutputOf(Head(sortedRuns), outputFields) # ""
    THEN finalOutputOf(Head(sortedRuns), outputFields)
    ELSE firstFinalOutput(Tail(sortedRuns), outputFields)

\* extractFinalOutput(runs, outputFields): latest start time first
extractFinalOutput(runs, outputFields) ==
  firstFinalOutput(StableSort(runs, [i \in DOMAIN runs |-> 0 - TimeOf(runs[i])]),
                   outputFields)

\* Lines 502-516: the text of one document.
documentText(doc) ==
  IF doc.isString THEN doc.content
  ELSE IF Truthy(doc.content) THEN doc.content
  ELSE "<json>"

\* extractDocuments(outputs) for an outputs object
extractDocuments(outputs) ==
  IF outputs.null THEN <<>>
  ELSE LET docsData == IF truthy(fieldOf(outputs, "documents")) THEN fieldOf(outputs, "documents")
                       ELSE IF truthy(fieldOf(outputs, "output")) THEN fieldOf(outputs, "output")
                       ELSE WholeData
       IN  IF docsData.t = "array"
             THEN [i \in DOMAIN docsData.a |-> documentText(docsData.a[i])]
           ELSE IF docsData.t = "object" THEN <<jsonText(docsData)>>
           ELSE <<toString(docsData)>>

\* Lines 536-546: the query after one more retriever run.
nextQuery(query, run) ==
  IF ~run.inputs.null /\ query = ""
    THEN LET q == extractValue(run.inputs, <<>>, COMMON_INPUT_FIELDS, "human", FALSE)
         IN  IF truthy(q) THEN toString(q) ELSE ""
    ELSE query

RECURSIVE retrievalLoop(_, _)
retrievalLoop(sortedRetRuns, data) ==
  IF sortedRetRuns = <<>> THEN data
  ELSE LET run == Head(sortedRetRuns) IN
       retrievalLoop(Tail(sortedRetRuns),
         [query |-> nextQuery(data.query, run),
          retrieved_chunks |-> data.retrieved_chunks \o extractDocuments(run.outputs),
          answer |-> data.answer])

\* runs.filter((r) => r.run_type === "retriever"), keeping the order
RECURSIVE filterByType(_, _)
filterByType(runs, runType) ==
  IF runs = <<>> THEN <<>>
  ELSE IF Head(runs).run_type = runType
    THEN <<Head(runs)>> \o filterByType(Tail(runs), runType)
    ELSE filterByType(Tail(runs), runType)

findRetrievalData(runs) ==
  LET retRuns == filterByType(runs, "retriever")
      sortedRetRuns == StableSort(retRuns, [i \in DOMAIN retRuns |-> TimeOf(retRuns[i])])
      data == retrievalLoop(sortedRetRuns, [query |-> "", retrieved_chunks |-> <<>>,
                                            answer |-> ""])
  IN  [data EXCEPT !.answer = extractFinalOutput(runs, <<>>)]

\* if (!(ragData.query && ragData.answer)) continue
ragKeeps_Always(ragData) == TRUE

ragKeeps(ragData) == ragData.query # "" /\ ragData.answer # ""

\* retrieved_chunks.slice(0, 3)
firstThree(chunks) == SubSeq(chunks, 1, IF Len(chunks) < 3 THEN Len(chunks) ELSE 3)

\* Lines 593-602.  retrieved_chunks is the list that the code joins with a
\* blank line, cited_chunks the list it writes as JSON text.
ragExamples(traceId, runs) ==
  LET ragData == findRetrievalData(runs) IN
  IF ~ragKeeps(ragData) THEN <<>>
  ELSE <<[trace_id |-> traceId, question |-> ragData.query,
          retrieved_chunks |-> ragData.retrieved_chunks,
          answer |-> ragData.answer,
          cited_chunks |-> firstThree(ragData.retrieved_chunks)]>>

RagInputs ==
  {Payload(<<[k |-> "query", v |-> Str("q1")]>>),
   Payload(<<[k |-> "query", v |-> Str("q2")]>>),
   Payload(<<[k |-> "custom", v |-> Str("c")]>>)}

RagOutputs ==
  {NullPayload,
   Payload(<<[k |-> "answer", v |-> Str("a")]>>),
   Payload(<<[k |-> "documents",
              v |-> Array(<<[isString |-> FALSE, type |-> JAbsent, role |-> JAbsent,
                             content |-> "chunk"]>>)]>>)}

RagRuns(n) ==
  {[i \in 1..n |-> [run_id |-> RunIds[i], run_type |-> f[i].ty, inputs |-> f[i].inp,
                    outputs |-> f[i].out, start_time |-> f[i].st]] :
     f \in [1..n -> [ty : {"retriever", "llm"}, inp : RagInputs, out : RagOutputs,
                     st : {NoTime, 1, 2}]]}

RagStart ==
  /\ r_pc = "start"
  /\ \E n \in 1..MaxRagRuns : r_runs \in RagRuns(n)
  /\ r_dataset = <<>>

RagIdle ==
  /\ r_pc = "idle"
  /\ r_runs = <<>>
  /\ r_dataset = <<>>

\* generateDataset([trace], "rag", options)
RagGenerate ==
  /\ r_pc = "start"
  /\ r_dataset' = ragExamples("t1", r_runs)
  /\ r_pc' = "done"
  /\ UNCHANGED r_runs
  /\ UNCHANGED notRag

(***************************************************************************)
(* generate_datasets.ts: extractTraceOutput and the final_response branch  *)
(* of generateDataset.                                                     *)
(***************************************************************************)
SomeObject == JV("object", "{a}")
Five == JV("number", "5")

\* extractTraceOutput(root, outputFields, messagesOnly)
extractTraceOutput(outputs, outputFields, messagesOnly) ==
  IF outputs.null \/ outputs.entries = <<>> THEN Null
  ELSE LET result == extractValue(outputs, outputFields,
                                  IF messagesOnly THEN <<>> ELSE COMMON_OUTPUT_FIELDS,
                                  "ai", ~messagesOnly)
       IN  IF isObject(result) THEN Str(jsonText(result)) ELSE result

\* Lines 604-633 for one trace.
finalExamples(traceId, root, options) ==
  LET rootInputs == extractTraceInputs(root.inputs, options.inputFields,
                                       ~options.inputFields.given)
      output == extractTraceOutput(root.outputs, options.outputFields,
                                   options.messagesOnly)
  IN  IF skipsInputs(rootInputs) \/ ~truthy(output) THEN <<>>
      ELSE <<[trace_id |-> traceId,
              inputs |-> exampleInputs(rootInputs, options.inputFields),
              expected_response |-> output]>>

FinalInputs ==
  {NullPayload, Payload(<<>>),
   Payload(<<[k |-> "query", v |-> Str("q")]>>),
   Payload(<<[k |-> "custom", v |-> Str("c")], [k |-> "query", v |-> Str("q")]>>),
   Payload(<<[k |-> "custom", v |-> Five]>>),
   Payload(<<[k |-> "custom", v |-> SomeObject]>>),
   Payload(<<[k |-> "custom", v |-> Array(<<[isString |-> TRUE, type |-> JAbsent,
                                             role |-> JAbsent, content |-> "raw"]>>)]>>),
   Payload(<<[k |-> "custom", v |-> EmptyObject], [k |-> "query", v |-> Five]>>)}

FinalOutputs ==
  {NullPayload,
   Payload(<<[k |-> "answer", v |-> Str("a")]>>),
   Payload(<<[k |-> "custom", v |-> SomeObject]>>),
   Payload(<<[k |-> "messages",
              v |-> Array(<<[isString |-> FALSE, type |-> "ai", role |-> JAbsent,
                             content |-> "answer"]>>)]>>)}

FinalStart ==
  /\ f_pc = "start"
  /\ f_root \in [inputs : FinalInputs, outputs : FinalOutputs]
  /\ f_options \in [inputFields : {NoInputFields, [given |-> TRUE, names |-> <<"custom">>]},
                    outputFields : {<<>>, <<"custom">>},
                    messagesOnly : BOOLEAN]
  /\ f_dataset = <<>>

FinalIdle ==
  /\ f_pc = "idle"
  /\ f_root = [inputs |-> NullPayload, outputs |-> NullPayload]
  /\ f_options = [inputFields |-> NoInputFields, outputFields |-> <<>>,
                  messagesOnly |-> FALSE]
  /\ f_dataset = <<>>

\* generateDataset([trace], "final_response", options)
FinalGenerate ==
  /\ f_pc = "start"
  /\ f_dataset' = finalExamples("t1", f_root, f_options)
  /\ f_pc' = "done"
  /\ UNCHANGED <<f_root, f_options>>
  /\ UNCHANGED notFinal

(***************************************************************************)
(* query_traces.ts: buildQueryParams.  Option texts are character          *)
(* sequences, <<>> for an option that was not given (undefined and "" are  *)
(* both falsy); numeric options are NoNumber when not given.               *)
(***************************************************************************)
NoNumber == -1

\* `${n}` for the numbers used
numberText(n) ==
  CASE n = 0 -> <<"0">>
    [] n = 5 -> <<"5">>
    [] n = 20 -> <<"2", "0">>
    [] OTHER -> <<"?">>

\* value.split(",").map((t) => t.trim())
splitTrim(text) ==
  LET parts == split(text, ",") IN [i \in DOMAIN parts |-> trim(parts[i])]

\* One filter expression: fn(field, args...), or the raw text for fn = "raw".
Part(fn, field, args) == [fn |-> fn, field |-> field, args |-> args]

\* Lines 115-126.
traceIdParts(options) ==
  IF options.traceIds # <<>> /\ Len(splitTrim(options.traceIds)) > 1
    THEN <<Part("in", "trace_id", splitTrim(options.traceIds))>>
    ELSE <<>>

\* Lines 155-157.
nameParts(options) ==
  IF options.name # <<>> THEN <<Part("search", "name", <<options.name>>)>> ELSE <<>>

\* Lines 160-170.
thresholdParts(options) ==
  (IF options.minLatency # NoNumber
     THEN <<Part("gte", "latency", <<numberText(options.minLatency)>>)>> ELSE <<>>)
  \o (IF options.maxLatency # NoNumber
        THEN <<Part("lte", "latency", <<numberText(options.maxLatency)>>)>> ELSE <<>>)
  \o (IF options.minTokens # NoNumber
        THEN <<Part("gte", "total_tokens", <<numberText(options.minTokens)>>)>> ELSE <<>>)

\* Lines 173-182: has(tags, t) for one tag, or(has(tags, t1), ...) for more.
tagParts(options) ==
  IF options.tags = <<>> THEN <<>>
  ELSE IF Len(splitTrim(options.tags)) = 1
    THEN <<Part("has", "tags", splitTrim(options.tags))>>
    ELSE <<Part("or-has", "tags", splitTrim(options.tags))>>

\* Lines 185-187.
rawParts(options) ==
  IF options.rawFilter # <<>> THEN <<Part("raw", "", <<options.rawFilter>>)>> ELSE <<>>

filterParts(options) ==
  traceIdParts(options) \o nameParts(options) \o thresholdParts(options)
    \o tagParts(options) \o rawParts(options)

\* Lines 190-196: no filter, the single part, or and(part, ...).
combine(parts) ==
  IF parts = <<>> THEN [op |-> "none", parts |-> <<>>]
  ELSE IF Len(parts) = 1 THEN [op |-> "single", parts |-> parts]
  ELSE [op |-> "and", parts |-> parts]

\* Lines 134-138: startTime, from Date.now() - lastNMinutes or from since.
startTimeOf(options) ==
  IF options.lastNMinutes # NoNumber /\ options.lastNMinutes # 0
    THEN [from |-> "lastNMinutes", minutes |-> options.lastNMinutes, since |-> <<>>]
  ELSE IF options.since # <<>>
    THEN [from |-> "since", minutes |-> NoNumber, since |-> options.since]
  ELSE [from |-> "none", minutes |-> NoNumber, since |-> <<>>]

buildQueryParams(options, env) ==
  [projectName |-> IF options.project # <<>> THEN options.project ELSE env,
   traceId |-> IF options.traceIds # <<>> /\ Len(splitTrim(options.traceIds)) = 1
                 THEN splitTrim(options.traceIds)[1] ELSE <<>>,
   limit |-> IF options.limit # NoNumber /\ options.limit # 0
               THEN options.limit ELSE NoNumber,
   startTime |-> startTimeOf(options),
   runType |-> options.runType,
   isRoot |-> options.isRoot,
   error |-> options.error,
   filter |-> combine(filterParts(options))]

QueryOptions ==
  [project : {<<>>, <<"p">>},
   traceIds : {<<>>, <<"a">>, <<"a", ",", " ", "b">>},
   limit : {NoNumber, 20},
   lastNMinutes : {NoNumber, 0, 5},
   since : {<<>>, <<"T">>},
   runType : {<<>>, <<"l", "l", "m">>},
   isRoot : BOOLEAN,
   error : {"undefined", "true"},
   name : {<<>>, <<"n">>},
   rawFilter : {<<>>, <<"e", "q", "(", "x", ")">>},
   minLatency : {NoNumber, 0, 5},
   maxLatency : {NoNumber, 5},
   minTokens : {NoNumber, 0},
   tags : {<<>>, <<"t">>, <<"t", ",", "u">>}]

NoParams ==
  [projectName |-> <<>>, traceId |-> <<>>, limit |-> NoNumber,
   startTime |-> [from |-> "none", minutes |-> NoNumber, since |-> <<>>],
   runType |-> <<>>, isRoot |-> FALSE, error |-> "undefined",
   filter |-> [op |-> "none", parts |-> <<>>]]

QueryStart ==
  /\ q_pc = "start"
  /\ q_options \in QueryOptions
  /\ q_env \in {<<>>, <<"e">>}
  /\ q_params = NoParams

QueryIdle ==
  /\ q_pc = "idle"
  /\ q_options = [project |-> <<>>, traceIds |-> <<>>, limit |-> NoNumber,
                  lastNMinutes |-> NoNumber, since |-> <<>>, runType |-> <<>>,
                  isRoot |-> FALSE, error |-> "undefined", name |-> <<>>,
                  rawFilter |-> <<>>, minLatency |-> NoNumber,
                  maxLatency |-> NoNumber, minTokens |-> NoNumber, tags |-> <<>>]
  /\ q_env = <<>>
  /\ q_params = NoParams

\* One call of buildQueryParams.
BuildQueryParamsCall ==
  /\ q_pc = "start"
  /\ q_params' = buildQueryParams(q_options, q_env)
  /\ q_pc' = "returned"
  /\ UNCHANGED <<q_options, q_env>>
  /\ UNCHANGED notQuery

(***************************************************************************)
(* query_traces.ts: the traces export command, from the fetch loop on.     *)
(* A file name is a sequence of tokens; the tokens ".jsonl" and ".json"    *)
(* are the only ones that hold a dot.                                      *)
(***************************************************************************)
MaxExportTraces == 2

TraceIds == {"a", "b"}

\* String(idx + 1)
indexText(n) ==
  CASE n = 1 -> "1"
    [] n = 2 -> "2"
    [] n = 3 -> "3"
    [] OTHER -> "n"

\* text.replace(token, by): the first occurrence only
replaceFirst(tokens, token, by) ==
  IF \E i \in DOMAIN tokens : tokens[i] = token
    THEN LET i == CHOOSE k \in DOMAIN tokens :
                    tokens[k] = token /\ \A j \in 1..(k - 1) : tokens[j] # token
         IN  [tokens EXCEPT ![i] = by]
    ELSE tokens

isExtension(token) == token \in {".jsonl", ".json"}

\* Lines 780-788: the file name of results[idx].
fileName(pattern, tid, idx) ==
  LET filename == replaceFirst(replaceFirst(pattern, "{trace_id}", tid),
                               "{index}", indexText(idx))
  IN  IF filename # <<>> /\ filename[Len(filename)] = ".jsonl" THEN filename
      ELSE IF \E i \in DOMAIN filename : isExtension(filename[i])
        THEN (IF isExtension(filename[Len(filename)])
                THEN [filename EXCEPT ![Len(filename)] = ".jsonl"]
                ELSE filename)
      ELSE Append(filename, ".jsonl")

FilenamePatterns ==
  {<<"{trace_id}", ".jsonl">>, <<"{index}", ".jsonl">>, <<"{trace_id}", ".json">>,
   <<"{trace_id}">>, <<"out", ".jsonl">>}

\* The runs a successful listRuns({traceId: tid}) delivers.
FetchedRuns(tid) ==
  {<<>>, <<[trace_id |-> tid, n |-> 1]>>,
   <<[trace_id |-> tid, n |-> 1], [trace_id |-> tid, n |-> 2]>>}

Failed == [ok |-> FALSE, runs |-> <<>>]

Delivered(traceRuns) == [ok |-> TRUE, runs |-> traceRuns]

\* Lines 761-763: the catch of the fetch loop warns and the loop goes on.
afterFailure_Abort == "aborted"

afterFailure == "fetch"

\* fs.writeFileSync(filePath, ...): creates or replaces the file
writeFile(files, file, lines) ==
  {f \in files : f.file # file} \cup {[file |-> file, lines |-> lines]}

ExportStart ==
  /\ p_pc = "fetch"
  /\ p_ids \in UNION {[1..n -> TraceIds] : n \in 1..MaxExportTraces}
  /\ p_pattern \in FilenamePatterns
  /\ p_outcomes = <<>>
  /\ p_results = <<>>
  /\ p_warnings = <<>>
  /\ p_written = 0
  /\ p_writes = <<>>
  /\ p_files = {}
  /\ p_reported = NoNumber

ExportIdle ==
  /\ p_pc = "idle"
  /\ p_ids = <<>>
  /\ p_pattern = <<>>
  /\ p_outcomes = <<>>
  /\ p_results = <<>>
  /\ p_warnings = <<>>
  /\ p_written = 0
  /\ p_writes = <<>>
  /\ p_files = {}
  /\ p_reported = NoNumber

\* Lines 743-760: one iteration of the fetch loop in which listRuns ends
\* normally.
ExportFetchOk ==
  /\ p_pc = "fetch"
  /\ Len(p_outcomes) < Len(p_ids)
  /\ LET tid == p_ids[Len(p_outcomes) + 1] IN
     \E traceRuns \in FetchedRuns(tid) :
       /\ p_outcomes' = Append(p_outcomes, Delivered(traceRuns))
       /\ p_results' = IF Len(traceRuns) > 0
                         THEN Append(p_results, [tid |-> tid, runs |-> traceRuns])
                         ELSE p_results
  /\ UNCHANGED <<p_pc, p_ids, p_pattern, p_warnings, p_written, p_writes, p_files,
                 p_reported>>
  /\ UNCHANGED notExport

\* Lines 743-764: one iteration in which listRuns throws.
ExportFetchFails ==
  /\ p_pc = "fetch"
  /\ Len(p_outcomes) < Len(p_ids)
  /\ p_outcomes' = Append(p_outcomes, Failed)
  /\ p_warnings' = Append(p_warnings, p_ids[Len(p_outcomes) + 1])
  /\ p_pc' = afterFailure
  /\ UNCHANGED <<p_ids, p_pattern, p_results, p_written, p_writes, p_files, p_reported>>
  /\ UNCHANGED notExport

\* Lines 767-776: after the loop.
ExportFetched ==
  /\ p_pc = "fetch"
  /\ Len(p_outcomes) = Len(p_ids)
  /\ p_pc' = IF p_results = <<>> THEN "done" ELSE "write"
  /\ UNCHANGED <<p_ids, p_pattern, p_outcomes, p_results, p_warnings, p_written,
                 p_writes, p_files, p_reported>>
  /\ UNCHANGED notExport

\* Lines 778-799: one iteration of the write loop.
ExportWrite ==
  /\ p_pc = "write"
  /\ p_written < Len(p_results)
  /\ LET idx == p_written + 1
         file == fileName(p_pattern, p_results[idx].tid, idx)
     IN  /\ p_writes' = Append(p_writes, [file |-> file, tid |-> p_results[idx].tid,
                                          lines |-> p_results[idx].runs])
         /\ p_files' = writeFile(p_files, file, p_results[idx].runs)
  /\ p_written' = p_written + 1
  /\ UNCHANGED <<p_pc, p_ids, p_pattern, p_outcomes, p_results, p_warnings, p_reported>>
  /\ UNCHANGED notExport

\* Lines 801-803: "Exported N trace(s)".
ExportReport ==
  /\ p_pc = "write"
  /\ p_written = Len(p_results)
  /\ p_reported' = Len(p_results)
  /\ p_pc' = "done"
  /\ UNCHANGED <<p_ids, p_pattern, p_outcomes, p_results, p_warnings, p_written,
                 p_writes, p_files>>
  /\ UNCHANGED notExport

(***************************************************************************)
(* install.sh.  The install location is $INSTALL_DIR, whichever directory  *)
(* TARGET and GLOBAL select; i_fs is what lies under it.                   *)
(***************************************************************************)
MaxArgs == 3

NoExit == -1

\* config/skills/*: the skills of the package
PackageSkills == <<"skills/langsmith-trace", "skills/langsmith-dataset">>

\* Paths under $INSTALL_DIR: the persona, the package's skill names, a skill
\* and a file of the user's own.
InstallPaths == Range(PackageSkills) \cup {"AGENTS.md", "skills/my-skill", "notes.md"}

Absent == "absent"
UserDir == "directory of the user"
UserFile == "file of the user"
FromPackage == "copy of the package"

isDirectory(entry) == entry \in {UserDir, FromPackage}

InstallArguments == {"--claude", "--deepagents", "--global", "--force", "--yes", "--bogus"}

DefaultOptions == [TARGET |-> "claude", GLOBAL |-> FALSE, FORCE |-> FALSE, YES |-> FALSE,
                   unknown |-> FALSE]

\* Lines 38-68: the argument loop; an unknown option prints usage, which exits.
RECURSIVE parseArguments(_, _)
parseArguments(args, opts) ==
  IF args = <<>> THEN opts
  ELSE LET rest == Tail(args) IN
    CASE Head(args) = "--claude" -> parseArguments(rest, [opts EXCEPT !.TARGET = "claude"])
      [] Head(args) = "--deepagents" ->
           parseArguments(rest, [opts EXCEPT !.TARGET = "deepagents"])
      [] Head(args) = "--global" -> parseArguments(rest, [opts EXCEPT !.GLOBAL = TRUE])
      [] Head(args) = "--force" -> parseArguments(rest, [opts EXCEPT !.FORCE = TRUE])
      [] Head(args) = "--yes" -> parseArguments(rest, [opts EXCEPT !.YES = TRUE])
      [] OTHER -> [opts EXCEPT !.unknown = TRUE]

\* Line 33: usage ends with exit 0.
usageExit == 0

\* Lines 71-89
INCLUDE_AGENTS_MD(opts) == opts.TARGET = "deepagents" /\ opts.GLOBAL

agentInstall(opts, exists) == opts.TARGET = "deepagents" /\ opts.GLOBAL /\ exists

\* Lines 136-138: rm -rf "$INSTALL_DIR"
removeAll(fs) == [p \in DOMAIN fs |-> Absent]

InstallFileSystems ==
  {fs \in [InstallPaths -> {Absent, UserDir, UserFile}] :
     /\ fs["skills/my-skill"] # UserFile
     /\ fs["notes.md"] # UserDir
     /\ fs["AGENTS.md"] # UserDir}

InstallStart ==
  /\ i_pc = "parse"
  /\ i_args \in SeqsUpTo(InstallArguments, MaxArgs)
  /\ i_opts = DefaultOptions
  /\ i_reply = ""
  /\ i_shipped \in BOOLEAN
  /\ i_fs \in InstallFileSystems
  /\ i_exists \in BOOLEAN
  /\ (\E p \in InstallPaths : i_fs[p] # Absent) => i_exists
  /\ i_before = i_fs
  /\ i_next = 1
  /\ i_exit = NoExit

InstallIdle ==
  /\ i_pc = "idle"
  /\ i_args = <<>>
  /\ i_opts = DefaultOptions
  /\ i_reply = ""
  /\ i_shipped = FALSE
  /\ i_fs = [p \in InstallPaths |-> Absent]
  /\ i_exists = FALSE
  /\ i_before = [p \in InstallPaths |-> Absent]
  /\ i_next = 1
  /\ i_exit = NoExit

\* Lines 38-68
InstallParse ==
  /\ i_pc = "parse"
  /\ i_opts' = parseArguments(i_args, DefaultOptions)
  /\ IF i_opts'.unknown
       THEN i_pc' = "exited" /\ i_exit' = usageExit
       ELSE i_pc' = "check" /\ i_exit' = i_exit
  /\ UNCHANGED <<i_args, i_reply, i_shipped, i_exists, i_fs, i_before, i_next>>
  /\ UNCHANGED notInstall

\* Lines 104-118
InstallCheck ==
  /\ i_pc = "check"
  /\ IF agentInstall(i_opts, i_exists) /\ ~i_opts.FORCE
       THEN i_pc' = "exited" /\ i_exit' = 1
       ELSE i_pc' = "confirm" /\ i_exit' = i_exit
  /\ UNCHANGED <<i_args, i_opts, i_reply, i_shipped, i_exists, i_fs, i_before, i_next>>
  /\ UNCHANGED notInstall

\* Lines 121-128
InstallConfirm ==
  /\ i_pc = "confirm"
  /\ IF i_opts.YES
       THEN i_reply' = i_reply /\ i_pc' = "prepare" /\ i_exit' = i_exit
       ELSE \E reply \in {"y", "Y", "n", ""} :
              /\ i_reply' = reply
              /\ IF reply \in {"y", "Y"}
                   THEN i_pc' = "prepare" /\ i_exit' = i_exit
                   ELSE i_pc' = "exited" /\ i_exit' = 0
  /\ UNCHANGED <<i_args, i_opts, i_shipped, i_exists, i_fs, i_before, i_next>>
  /\ UNCHANGED notInstall

\* Lines 134-151: rm -rf of an existing agent, mkdir -p, AGENTS.md
InstallPrepare ==
  /\ i_pc = "prepare"
  /\ LET cleared == IF agentInstall(i_opts, i_exists) /\ i_opts.FORCE
                      THEN removeAll(i_fs) ELSE i_fs
     IN  IF INCLUDE_AGENTS_MD(i_opts)
           THEN IF i_shipped
                  THEN /\ i_fs' = [cleared EXCEPT !["AGENTS.md"] = FromPackage]
                       /\ i_pc' = "skills" /\ i_exit' = i_exit
                  ELSE /\ i_fs' = cleared
                       /\ i_pc' = "exited" /\ i_exit' = 1
           ELSE i_fs' = cleared /\ i_pc' = "skills" /\ i_exit' = i_exit
  /\ i_exists' = TRUE
  /\ UNCHANGED <<i_args, i_opts, i_reply, i_shipped, i_before, i_next>>
  /\ UNCHANGED notInstall

\* Lines 156-168: one iteration of the loop over config/skills/*.  cp -r of a
\* directory onto an existing file fails, and set -e ends the script.
InstallSkill ==
  /\ i_pc = "skills"
  /\ i_next <= Len(PackageSkills)
  /\ LET skill == PackageSkills[i_next] IN
     IF isDirectory(i_fs[skill]) /\ ~i_opts.FORCE
       THEN i_fs' = i_fs /\ i_next' = i_next + 1 /\ i_pc' = i_pc /\ i_exit' = i_exit
     ELSE IF i_fs[skill] = UserFile
       THEN i_fs' = i_fs /\ i_next' = i_next /\ i_pc' = "exited" /\ i_exit' = 1
     ELSE /\ i_fs' = [i_fs EXCEPT ![skill] = FromPackage]
          /\ i_next' = i_next + 1 /\ i_pc' = i_pc /\ i_exit' = i_exit
  /\ UNCHANGED <<i_args, i_opts, i_reply, i_shipped, i_exists, i_before>>
  /\ UNCHANGED notInstall

\* Lines 174-237: the closing messages; the script ends with status 0.
InstallComplete ==
  /\ i_pc = "skills"
  /\ i_next > Len(PackageSkills)
  /\ i_pc' = "exited"
  /\ i_exit' = 0
  /\ UNCHANGED <<i_args, i_opts, i_reply, i_shipped, i_exists, i_fs, i_before, i_next>>
  /\ UNCHANGED notInstall

(***************************************************************************)
(* query_datasets.ts: the view-file and structure commands.  The content   *)
(* of a file is its kind and its number of examples or of non-blank lines. *)
(* An action that returns lets the process end with status 0; an uncaught  *)
(* exception ends it with status 1.                                        *)
(***************************************************************************)
MaxItems == 2

\* path.extname(resolvedPath)
Extensions == {".json", ".csv", ".jsonl", ".JSON", ".txt", ""}

FileContents ==
  {[kind |-> k, n |-> 0] : k \in {"blank", "invalid", "object"}}
    \cup {[kind |-> "items", n |-> n] : n \in 0..MaxItems}

Min(a, b) == IF a < b THEN a ELSE b

Said(text) == [text |-> text, n |-> 0]

Counted(text, n) == [text |-> text, n |-> n]

\* Lines 192-194: content.trim() ? JSON.parse(content) : [], then an array of it
jsonLength(content) ==
  CASE content.kind = "blank" -> 0
    [] content.kind = "object" -> 1
    [] OTHER -> content.n

\* JSON.parse throws on text that is not JSON
parseThrows(content) == content.kind = "invalid"

\* Lines 200-201: content.split("\n").filter((l) => l.trim())
csvLines(content) ==
  CASE content.kind = "blank" -> 0
    [] content.kind \in {"object", "invalid"} -> 1
    [] OTHER -> content.n

\* Lines 181-241: what view-file prints and how the process ends
viewFile(file, opts) ==
  IF ~file.exists
    THEN [out |-> <<Said("Error: File not found")>>, exit |-> 0]
  ELSE IF file.ext = ".json"
    THEN IF parseThrows(file.content)
           THEN [out |-> <<Said("SyntaxError")>>, exit |-> 1]
           ELSE [out |-> <<Said("File:"), Counted("Total:", jsonLength(file.content)),
                           Counted("examples",
                                   Min(jsonLength(file.content), opts.limit))>>,
                 exit |-> 0]
  ELSE IF file.ext = ".csv"
    THEN IF csvLines(file.content) = 0
           THEN [out |-> <<Said("Empty CSV file")>>, exit |-> 0]
           ELSE [out |-> <<Said("File:"), Counted("Total:", csvLines(file.content) - 1),
                           Counted(IF opts.format = "json" THEN "rows" ELSE "table",
                                   Min(csvLines(file.content) - 1, opts.limit))>>,
                 exit |-> 0]
  ELSE [out |-> <<Said("Error: Unsupported file type")>>, exit |-> 0]

\* Lines 247-319: what structure prints and how the process ends
structure(file) ==
  IF ~file.exists
    THEN [out |-> <<Said("Error: File not found")>>, exit |-> 0]
  ELSE IF file.ext = ".json"
    THEN IF parseThrows(file.content)
           THEN [out |-> <<Said("File:"), Said("SyntaxError")>>, exit |-> 1]
           ELSE [out |-> <<Said("File:"), Said("Format: JSON"),
                           Counted("Examples:", jsonLength(file.content))>>
                          \o (IF jsonLength(file.content) > 0
                                THEN <<Said("Structure:"), Said("Fields:")>> ELSE <<>>),
                 exit |-> 0]
  ELSE IF file.ext = ".csv"
    THEN IF csvLines(file.content) = 0
           THEN [out |-> <<Said("File:"), Said("Empty CSV file")>>, exit |-> 0]
           ELSE [out |-> <<Said("File:"), Said("Format: CSV"),
                           Counted("Rows:", csvLines(file.content) - 1),
                           Said("Columns:")>>,
                 exit |-> 0]
  ELSE [out |-> <<Said("File:"), Said("Error: Unsupported file type")>>, exit |-> 0]

ViewStart ==
  /\ v_pc = "start"
  /\ v_file \in [exists : BOOLEAN, ext : Extensions, content : FileContents]
  /\ v_opts \in [format : {"pretty", "json"}, limit : {1, 5}]
  /\ v_out = <<>>
  /\ v_exit = NoExit

ViewIdle ==
  /\ v_pc = "idle"
  /\ v_file = [exists |-> FALSE, ext |-> "", content |-> [kind |-> "blank", n |-> 0]]
  /\ v_opts = [format |-> "pretty", limit |-> 5]
  /\ v_out = <<>>
  /\ v_exit = NoExit

ViewFileCommand ==
  /\ v_pc = "start"
  /\ v_out' = viewFile(v_file, v_opts).out
  /\ v_exit' = viewFile(v_file, v_opts).exit
  /\ v_pc' = "exited"
  /\ UNCHANGED <<v_file, v_opts>>
  /\ UNCHANGED notView

StructureCommand ==
  /\ v_pc = "start"
  /\ v_out' = structure(v_file).out
  /\ v_exit' = structure(v_file).exit
  /\ v_pc' = "exited"
  /\ UNCHANGED <<v_file, v_opts>>
  /\ UNCHANGED notView

(***************************************************************************)
(* generate_datasets.ts: extractFromMessages on its own, over arrays of    *)
(* several messages.                                                       *)
(***************************************************************************)
MaxMessages == 3

ChatMessages ==
  Messages \cup {[isString |-> FALSE, type |-> "ai", role |-> JAbsent, content |-> "later"]}

MessagesStart ==
  /\ m_pc = "start"
  /\ m_messages \in SeqsUpTo(ChatMessages, MaxMessages)
  /\ m_role \in {"human", "user", "ai", "assistant", JAbsent}
  /\ m_result = Undefined

MessagesIdle ==
  /\ m_pc = "idle"
  /\ m_messages = <<>>
  /\ m_role = JAbsent
  /\ m_result = Undefined

ExtractFromMessagesCall ==
  /\ m_pc = "start"
  /\ m_result' = extractFromMessages(m_messages, m_role)
  /\ m_pc' = "returned"
  /\ UNCHANGED <<m_messages, m_role>>
  /\ UNCHANGED notMessages

(***************************************************************************)
(* The specifications, one per program.                                    *)
(***************************************************************************)
GenInit == GenStart /\ EvalIdle /\ LoadIdle /\ HierIdle /\ ExtractIdle /\ CsvIdle /\ TrajIdle
  /\ StepIdle
  /\ RagIdle
  /\ FinalIdle
  /\ QueryIdle
  /\ ExportIdle
  /\ InstallIdle
  /\ ViewIdle
  /\ MessagesIdle

GenNext ==
  \/ GenRun
  \/ GenReadExisting
  \/ GenPrompt
  \/ GenDelete
  \/ GenCreateDataset
  \/ GenReadDataset
  \/ GenCreateExamples

SpecGen == GenInit /\ [][GenNext]_vars

EvalInit == EvalStart /\ GenIdle /\ LoadIdle /\ HierIdle /\ ExtractIdle /\ CsvIdle /\ TrajIdle
  /\ StepIdle
  /\ RagIdle
  /\ FinalIdle
  /\ QueryIdle
  /\ ExportIdle
  /\ InstallIdle
  /\ ViewIdle
  /\ MessagesIdle

EvalNext ==
  \/ EvalRun
  \/ EvalExists
  \/ EvalReplacePrompt
  \/ EvalDelGetRules
  \/ EvalDelPrompt
  \/ EvalDelSend
  \/ EvalResolveDataset
  \/ EvalResolveProject
  \/ EvalCreate

SpecEval == EvalInit /\ [][EvalNext]_vars

LoadInit == LoadStart /\ GenIdle /\ EvalIdle /\ HierIdle /\ ExtractIdle /\ CsvIdle /\ TrajIdle
  /\ StepIdle
  /\ RagIdle
  /\ FinalIdle
  /\ QueryIdle
  /\ ExportIdle
  /\ InstallIdle
  /\ ViewIdle
  /\ MessagesIdle

LoadNext ==
  \/ LoadFile
  \/ LoadDir

SpecLoad == LoadInit /\ [][LoadNext]_vars

HierInit == HierStart /\ GenIdle /\ EvalIdle /\ LoadIdle /\ ExtractIdle /\ CsvIdle /\ TrajIdle
  /\ StepIdle
  /\ RagIdle
  /\ FinalIdle
  /\ QueryIdle
  /\ ExportIdle
  /\ InstallIdle
  /\ ViewIdle
  /\ MessagesIdle

HierNext ==
  \/ GetDepthCall
  \/ GetDepthLoop
  \/ GetDepthReturn
  \/ PrintTreeCall
  \/ PrintTreeLoop
  \/ PrintTreeReturn

SpecHier == HierInit /\ [][HierNext]_vars

ExtractInit == ExtractStart /\ GenIdle /\ EvalIdle /\ LoadIdle /\ HierIdle /\ CsvIdle /\ TrajIdle
  /\ StepIdle
  /\ RagIdle
  /\ FinalIdle
  /\ QueryIdle
  /\ ExportIdle
  /\ InstallIdle
  /\ ViewIdle
  /\ MessagesIdle

ExtractNext ==
  \/ ExtractValueCall

SpecExtract == ExtractInit /\ [][ExtractNext]_vars

CsvInit == CsvStart /\ GenIdle /\ EvalIdle /\ LoadIdle /\ HierIdle /\ ExtractIdle /\ TrajIdle
  /\ StepIdle
  /\ RagIdle
  /\ FinalIdle
  /\ QueryIdle
  /\ ExportIdle
  /\ InstallIdle
  /\ ViewIdle
  /\ MessagesIdle

CsvNext ==
  \/ CsvExport
  \/ CsvView

SpecCsv == CsvInit /\ [][CsvNext]_vars

TrajInit ==
  TrajStart /\ GenIdle /\ EvalIdle /\ LoadIdle /\ HierIdle /\ ExtractIdle /\ CsvIdle
  /\ StepIdle
  /\ RagIdle
  /\ FinalIdle
  /\ QueryIdle
  /\ ExportIdle
  /\ InstallIdle
  /\ ViewIdle
  /\ MessagesIdle

TrajNext ==
  \/ TrajGenerate
  \/ TrajHang

SpecTraj == TrajInit /\ [][TrajNext]_vars

StepInit ==
  StepStart /\ GenIdle /\ EvalIdle /\ LoadIdle /\ HierIdle /\ ExtractIdle /\ CsvIdle /\ TrajIdle
  /\ RagIdle
  /\ FinalIdle
  /\ QueryIdle
  /\ ExportIdle
  /\ InstallIdle
  /\ ViewIdle
  /\ MessagesIdle

StepNext ==
  \/ StepGenerate

SpecStep == StepInit /\ [][StepNext]_vars

RagInit ==
  RagStart /\ GenIdle /\ EvalIdle /\ LoadIdle /\ HierIdle /\ ExtractIdle /\ CsvIdle /\ TrajIdle /\ StepIdle
  /\ FinalIdle
  /\ QueryIdle
  /\ ExportIdle
  /\ InstallIdle
  /\ ViewIdle
  /\ MessagesIdle

RagNext ==
  \/ RagGenerate

SpecRag == RagInit /\ [][RagNext]_vars

FinalInit ==
  FinalStart /\ GenIdle /\ EvalIdle /\ LoadIdle /\ HierIdle /\ ExtractIdle /\ CsvIdle /\ TrajIdle /\ StepIdle /\ RagIdle
  /\ QueryIdle
  /\ ExportIdle
  /\ InstallIdle
  /\ ViewIdle
  /\ MessagesIdle

FinalNext ==
  \/ FinalGenerate

SpecFinal == FinalInit /\ [][FinalNext]_vars

QueryInit ==
  QueryStart /\ GenIdle /\ EvalIdle /\ LoadIdle /\ HierIdle /\ ExtractIdle /\ CsvIdle /\ TrajIdle /\ StepIdle /\ RagIdle /\ FinalIdle
  /\ ExportIdle
  /\ InstallIdle
  /\ ViewIdle
  /\ MessagesIdle

QueryNext ==
  \/ BuildQueryParamsCall

SpecQuery == QueryInit /\ [][QueryNext]_vars

ExportInit ==
  ExportStart /\ GenIdle /\ EvalIdle /\ LoadIdle /\ HierIdle /\ ExtractIdle /\ CsvIdle /\ TrajIdle /\ StepIdle /\ RagIdle /\ FinalIdle /\ QueryIdle
  /\ InstallIdle
  /\ ViewIdle
  /\ MessagesIdle

ExportNext ==
  \/ ExportFetchOk
  \/ ExportFetchFails
  \/ ExportFetched
  \/ ExportWrite
  \/ ExportReport

SpecExport == ExportInit /\ [][ExportNext]_vars

InstallInit ==
  InstallStart /\ GenIdle /\ EvalIdle /\ LoadIdle /\ HierIdle /\ ExtractIdle /\ CsvIdle /\ TrajIdle /\ StepIdle /\ RagIdle /\ FinalIdle /\ QueryIdle /\ ExportIdle
  /\ ViewIdle
  /\ MessagesIdle

InstallNext ==
  \/ InstallParse
  \/ InstallCheck
  \/ InstallConfirm
  \/ InstallPrepare
  \/ InstallSkill
  \/ InstallComplete

SpecInstall == InstallInit /\ [][InstallNext]_vars

ViewInit ==
  ViewStart /\ GenIdle /\ EvalIdle /\ LoadIdle /\ HierIdle /\ ExtractIdle /\ CsvIdle /\ TrajIdle /\ StepIdle /\ RagIdle /\ FinalIdle /\ QueryIdle /\ ExportIdle /\ InstallIdle
  /\ MessagesIdle

ViewNext ==
  \/ ViewFileCommand
  \/ StructureCommand

SpecView == ViewInit /\ [][ViewNext]_vars

TreeInit ==
  TreeStart /\ GenIdle /\ EvalIdle /\ LoadIdle /\ ExtractIdle /\ CsvIdle /\ TrajIdle /\ StepIdle /\ RagIdle /\ FinalIdle /\ QueryIdle /\ ExportIdle /\ InstallIdle /\ ViewIdle
  /\ MessagesIdle

TreeNext ==
  \/ PrintTreeCall
  \/ PrintTreeLoop
  \/ PrintTreeReturn

SpecTree == TreeInit /\ [][TreeNext]_vars

MessagesInit ==
  MessagesStart /\ GenIdle /\ EvalIdle /\ LoadIdle /\ HierIdle /\ ExtractIdle /\ CsvIdle /\ TrajIdle /\ StepIdle /\ RagIdle /\ FinalIdle /\ QueryIdle /\ ExportIdle /\ InstallIdle /\ ViewIdle

MessagesNext ==
  \/ ExtractFromMessagesCall

SpecMessages == MessagesInit /\ [][MessagesNext]_vars

\* ---- end of the specifications ----

(***************************************************************************)
(* The claims.                                                             *)
(***************************************************************************)
Requested(r) == r \in Range(g_requests)

\* The answer is the letter y, in either case, blanks around it ignored.
AnsweredY(a) ==
  \E i \in DOMAIN a :
    /\ a[i] \in {"y", "Y"}
    /\ \A j \in DOMAIN a \ {i} : a[j] = " "

\* C1: with --upload and --replace, the delete request for the existing
\* destination dataset is sent only after --yes was given or the user answered
\* y at the prompt; after any other answer no delete-dataset and no
\* create-examples request is sent in the run.
C1_DeleteOnlyAfterConfirmation ==
  /\ Requested("deleteDataset") =>
       (g_opts.yes \/ (g_answer # <<>> /\ AnsweredY(g_answer[Len(g_answer)])))
  /\ (g_answer # <<>> /\ ~AnsweredY(g_answer[1])) =>
       (~Requested("deleteDataset") /\ ~Requested("createExamples"))

\* The run was cancelled at the prompt, after the existing dataset was read.
C1_Witness ==
  /\ g_pc = "done"
  /\ g_opts.upload /\ g_opts.replace /\ ~g_opts.yes
  /\ g_answer # <<>> /\ ~AnsweredY(g_answer[1])
  /\ Requested("readDataset")
  /\ g_remote = g_remote0

Sent(method) == \E i \in DOMAIN e_requests : e_requests[i].method = method

\* C2: in upload_evaluators a DELETE request for an evaluator rule is sent only
\* after the user answered y at a confirmation prompt or --yes was given, in
\* the delete command and in upload --replace alike; after a declined prompt
\* no DELETE and no POST request is sent.
C2_EvaluatorDeleteOnlyAfterConfirmation ==
  /\ Sent("DELETE") =>
       (e_opts.yes \/ (e_answer # <<>> /\ AnsweredY(e_answer[Len(e_answer)])))
  /\ (e_answer # <<>> /\ ~AnsweredY(e_answer[1])) =>
       (~Sent("DELETE") /\ ~Sent("POST"))

\* upload --replace of an existing evaluator, declined at the prompt.
C2_Witness ==
  /\ e_pc = "done"
  /\ e_cmd = "upload" /\ e_opts.replace /\ ~e_opts.yes
  /\ e_answer # <<>> /\ ~AnsweredY(e_answer[1])
  /\ TheName \in e_rules
  /\ Sent("GET")

\* The runs the loader was given: the non-blank lines of the input.
InputRuns ==
  LET of(f) == {r \in Range(WithIds(f, l_files[f])) : ~r.blank}
  IN  IF l_input = Dir THEN UNION {of(f) : f \in Range(FileNames)} ELSE of(l_input)

\* C5: grouping by trace_id, with the fallback key for runs that have none,
\* partitions the runs that were read: every run is in exactly one trace's run
\* list, exactly once, none is dropped, and the run counts of the traces add up
\* to the number of runs read.
C5_GroupingPartitions ==
  l_pc = "loaded" =>
    /\ \A r \in InputRuns :
         Cardinality({<<t, i>> \in (DOMAIN l_traces) \X (1..MaxLines + 1) :
                        i <= Len(l_traces[t].runs) /\ l_traces[t].runs[i] = r}) = 1
    /\ \A t \in DOMAIN l_traces : Range(l_traces[t].runs) \subseteq InputRuns
    /\ \A t \in DOMAIN l_traces :
         \A r \in Range(l_traces[t].runs) :
           l_traces[t].trace_id =
             IF r.trace_id # JAbsent THEN r.trace_id
             ELSE IF l_input = Dir THEN r.run_id[1] ELSE "unknown"

\* Runs with and without a trace_id were read and fell into several traces.
C5_Witness ==
  /\ l_pc = "loaded"
  /\ Len(l_traces) >= 2
  /\ \E r \in InputRuns : ~Truthy(r.trace_id)
  /\ \E r \in InputRuns : Truthy(r.trace_id)

\* C6: for every trace exactly one root run is selected: the first run in
\* input order whose parent_run_id is null or absent when there is one, and
\* otherwise the first run of the trace.
C6_RootIsFirstParentless ==
  l_pc = "loaded" =>
    \A t \in DOMAIN l_traces :
      LET runs == Range(l_traces[t].runs)
          root == l_traces[t].root
          parentless == {r \in runs : r.parent_run_id \in {JNull, JAbsent}}
          candidates == IF parentless # {} THEN parentless ELSE runs
      IN  /\ runs # {}
          /\ root \in candidates
          /\ \A r \in candidates : root.run_id[2] <= r.run_id[2]

\* A trace whose first run names a parent and whose later run does not.
C6_Witness ==
  /\ l_pc = "loaded"
  /\ \E t \in DOMAIN l_traces :
       /\ Len(l_traces[t].runs) >= 2
       /\ l_traces[t].runs[1].parent_run_id = "p"
       /\ l_traces[t].root = l_traces[t].runs[2]
       /\ l_traces[t].root.parent_run_id \in {JNull, JAbsent}

\* C4: for every run list, one with a cycle of parent_run_id links included,
\* the depth computation and printTree both end after a number of steps
\* bounded by the number of runs: getDepth's loop runs at most that many
\* times, and so does printTree's.
C4_DepthAndTreeTerminate ==
  /\ h_d <= Len(h_runs)
  /\ h_iter <= Len(h_runs)

\* The depth of run i, once getDepth has returned it.
DepthKnown(i) == i <= Len(h_depths)

IndexOfRun(id) == CHOOSE i \in DOMAIN h_runs : h_runs[i].run_id = id

Resolves(i) == \E j \in DOMAIN h_runs : h_runs[j].run_id = h_runs[i].parent_run_id

RootIndex == IndexOfRun(findRoot(h_runs).run_id)

FirstPresent(data, fields) ==
  fields[CHOOSE i \in DOMAIN fields :
           /\ Has(data, fields[i])
           /\ \A j \in DOMAIN fields : Has(data, fields[j]) => i <= j]

\* C8: for a payload that holds both a requested field and a common field,
\* extractValue returns the value of the first requested field present in the
\* payload, whatever that value is, and never the common field's value in
\* its place.
C8_ExplicitFieldWins ==
  (/\ x_pc = "returned"
   /\ ~x_data.null
   /\ \E i \in DOMAIN x_fields : Has(x_data, x_fields[i])
   /\ \E i \in DOMAIN x_common : Has(x_data, x_common[i])) =>
     x_result = fieldOf(x_data, FirstPresent(x_data, x_fields))

\* row[key] of a row view-file built
rowValue(row, key) ==
  IF \E j \in DOMAIN row : row[j].k = <<key>>
    THEN row[CHOOSE j \in DOMAIN row :
               row[j].k = <<key>> /\ \A h \in DOMAIN row : row[h].k = <<key>> => h <= j].v
    ELSE <<"<undefined>">>

\* C9: exporting N examples to CSV and reading the file back gives exactly N
\* rows, and for every key present in at least one example the value of each
\* row equals the stringified value of the example it came from, also when the
\* value holds a comma, a double quote or a newline.
C9_CsvRoundTrip ==
  c_pc = "viewed" =>
    /\ Len(c_rows) = Len(c_dataset)
    /\ \A i \in DOMAIN c_rows :
         \A j \in DOMAIN fieldnames(c_dataset) :
           LET key == fieldnames(c_dataset)[j] IN
           rowValue(c_rows[i], key) = stringify(c_dataset[i][key])

\* The depth of a run by parent links, bounded by the size of the trace.
boundedDepth(runs, runId) ==
  IF getDepth(parentMap(runs), runId) = Diverges THEN Len(runs)
  ELSE getDepth(parentMap(runs), runId)

\* The lower-cased names of the tool runs of depth at most max_depth, in
\* ascending start-time order.
RECURSIVE toolNames(_, _, _)
toolNames(sortedRuns, runs, depth) ==
  IF sortedRuns = <<>> THEN <<>>
  ELSE LET r == Head(sortedRuns)
           rest == toolNames(Tail(sortedRuns), runs, depth)
       IN  IF r.run_type = "tool" /\ (depth = NoDepth \/ boundedDepth(runs, r.run_id) <= depth)
             THEN <<toolName(r)>> \o rest
             ELSE rest

expectedTrajectory(trace) ==
  toolNames(StableSort(trace.runs, [i \in DOMAIN trace.runs |-> TimeOf(trace.runs[i])]),
            trace.runs, t_options.depth)

rootInputsEmpty(trace) == trace.inputs.null \/ trace.inputs.entries = <<>>

examplesOf(trace) ==
  {k \in DOMAIN t_dataset : t_dataset[k].trace_id = trace.trace_id}

\* C10: for every trace the trajectory builder emits exactly one example,
\* whose expected_trajectory is the list of lower-cased names of the tool runs
\* of depth at most max_depth (all tool runs without max_depth) in ascending
\* start-time order, and it emits no example for the trace exactly when that
\* list is empty or the root inputs are empty.
C10_TrajectoryPerTrace ==
  t_pc \in {"done", "hung"} =>
    /\ t_pc = "done"
    /\ \A i \in DOMAIN t_traces :
         LET trace == t_traces[i] IN
         IF expectedTrajectory(trace) = <<>> \/ rootInputsEmpty(trace)
           THEN examplesOf(trace) = {}
           ELSE /\ Cardinality(examplesOf(trace)) = 1
                /\ \A k \in examplesOf(trace) :
                     t_dataset[k].expected_trajectory = expectedTrajectory(trace)

\* The trace's runs that match run_name (all runs without run_name), in
\* ascending start-time order.
matchingRuns ==
  LET target == IF Truthy(s_options.runName)
                  THEN filterByName(s_trace.runs, s_options.runName)
                  ELSE s_trace.runs
  IN  StableSort(target, [i \in DOMAIN target |-> TimeOf(target[i])])

\* C11: without a sampling cap, a trace with N runs named run_name gives
\* exactly N single_step examples, one per matching run, with occurrence 1..N
\* in ascending start-time order.
C11_OneExamplePerMatch ==
  (s_pc = "done" /\ s_options.samplePerTrace = NoCap /\ Truthy(s_options.runName)) =>
    /\ Len(s_dataset) = Len(matchingRuns)
    /\ \A k \in DOMAIN s_dataset :
         /\ s_dataset[k].occurrence = k
         /\ k \in DOMAIN matchingRuns => s_dataset[k].run_id = matchingRuns[k].run_id

\* C12: for every cap K >= 0 and every trace with N > K matching
\* occurrences, exactly K examples are emitted, each for a distinct one of the
\* N occurrences, whatever the random choice.
C12_SampleHasCapSize ==
  (/\ s_pc = "done"
   /\ s_options.samplePerTrace >= 0
   /\ Len(matchingRuns) > s_options.samplePerTrace) =>
    /\ Len(s_dataset) = s_options.samplePerTrace
    /\ \A i, j \in DOMAIN s_dataset : i # j => s_dataset[i].run_id # s_dataset[j].run_id
    /\ \A i \in DOMAIN s_dataset :
         \E k \in DOMAIN matchingRuns : matchingRuns[k].run_id = s_dataset[i].run_id

\* C13: in every single_step example, sampled or not, occurrence is the
\* 1-based position of the example's run among the trace's matching runs in
\* ascending start-time order.
C13_OccurrenceIsPosition ==
  s_pc = "done" =>
    \A i \in DOMAIN s_dataset :
      /\ s_dataset[i].occurrence \in DOMAIN matchingRuns
      /\ matchingRuns[s_dataset[i].occurrence].run_id = s_dataset[i].run_id

\* C14: the RAG builder emits an example for a trace only if the extracted
\* question and the extracted answer are both non-empty, and these are what
\* the example carries; a trace without a retriever run yields no example.
C14_RagNeedsQuestionAndAnswer ==
  r_pc = "done" =>
    /\ \A k \in DOMAIN r_dataset :
         /\ r_dataset[k].question # "" /\ r_dataset[k].answer # ""
         /\ r_dataset[k].question = findRetrievalData(r_runs).query
         /\ r_dataset[k].answer = findRetrievalData(r_runs).answer
    /\ (\A i \in DOMAIN r_runs : r_runs[i].run_type # "retriever") => r_dataset = <<>>

C14_Witness ==
  /\ r_pc = "done"
  /\ r_dataset # <<>>
  /\ \E i \in DOMAIN r_runs : r_runs[i].run_type # "retriever"

\* C15: in a final_response example, with --input-fields the inputs are
\* {expected_input: <extracted value>} whatever kind of value was extracted
\* (string, number, object or array); without --input-fields they are the
\* root run's inputs object unchanged.
C15_InputsNormalized ==
  f_pc = "done" =>
    \A k \in DOMAIN f_dataset :
      IF f_options.inputFields.given
        THEN /\ f_dataset[k].inputs.wrapped
             /\ f_dataset[k].inputs.value =
                  extractValue(f_root.inputs, f_options.inputFields.names,
                               COMMON_INPUT_FIELDS, "human", TRUE)
        ELSE /\ ~f_dataset[k].inputs.wrapped
             /\ f_dataset[k].inputs.value = WholeData

\* The filter-expression parts of the options that were supplied.
suppliedParts ==
  (IF Len(splitTrim(q_options.traceIds)) > 1
     THEN <<Part("in", "trace_id", splitTrim(q_options.traceIds))>> ELSE <<>>)
  \o (IF q_options.name # <<>> THEN <<Part("search", "name", <<q_options.name>>)>> ELSE <<>>)
  \o (IF q_options.minLatency # NoNumber
        THEN <<Part("gte", "latency", <<numberText(q_options.minLatency)>>)>> ELSE <<>>)
  \o (IF q_options.maxLatency # NoNumber
        THEN <<Part("lte", "latency", <<numberText(q_options.maxLatency)>>)>> ELSE <<>>)
  \o (IF q_options.minTokens # NoNumber
        THEN <<Part("gte", "total_tokens", <<numberText(q_options.minTokens)>>)>> ELSE <<>>)
  \o (IF q_options.tags = <<>> THEN <<>>
      ELSE IF Len(splitTrim(q_options.tags)) = 1
        THEN <<Part("has", "tags", splitTrim(q_options.tags))>>
        ELSE <<Part("or-has", "tags", splitTrim(q_options.tags))>>)
  \o (IF q_options.rawFilter # <<>> THEN <<Part("raw", "", <<q_options.rawFilter>>)>> ELSE <<>>)

\* The filter is the conjunction of the supplied parts.
FilterIsConjunction ==
  /\ suppliedParts = <<>> => q_params.filter.op = "none"
  /\ Len(suppliedParts) = 1 =>
       q_params.filter.op = "single" /\ q_params.filter.parts = suppliedParts
  /\ Len(suppliedParts) >= 2 =>
       q_params.filter.op = "and" /\ q_params.filter.parts = suppliedParts

\* C16: buildQueryParams reflects every filter option the caller supplied in
\* the query parameters, and the filter-expression parts are combined
\* conjunctively: one part unchanged, two or more inside one and(...), no
\* filter when there is none.
C16_AllFiltersReflected ==
  q_pc = "returned" =>
    /\ FilterIsConjunction
    /\ q_options.project # <<>> => q_params.projectName = q_options.project
    /\ Len(splitTrim(q_options.traceIds)) = 1 /\ q_options.traceIds # <<>> =>
         q_params.traceId = splitTrim(q_options.traceIds)[1]
    /\ q_options.limit # NoNumber => q_params.limit = q_options.limit
    /\ q_options.lastNMinutes # NoNumber =>
         /\ q_params.startTime.from = "lastNMinutes"
         /\ q_params.startTime.minutes = q_options.lastNMinutes
    /\ q_options.since # <<>> =>
         /\ q_params.startTime.from = "since"
         /\ q_params.startTime.since = q_options.since
    /\ q_params.runType = q_options.runType
    /\ q_params.isRoot = q_options.isRoot
    /\ q_params.error = q_options.error

ExportEnded == p_pc \in {"done", "aborted"}

\* C17: in traces export, whatever the outcomes of the per-trace fetches, a
\* failed fetch is reported as a warning and does not stop the export: every
\* trace whose fetch delivered at least one run is written to a file.
C17_FailedFetchIsSkipped ==
  ExportEnded =>
    /\ Len(p_outcomes) = Len(p_ids)
    /\ \A i \in DOMAIN p_outcomes :
         IF p_outcomes[i] = Failed
           THEN \E w \in DOMAIN p_warnings : p_warnings[w] = p_ids[i]
           ELSE p_outcomes[i].runs # <<>> =>
                  \E w \in DOMAIN p_writes :
                    /\ p_writes[w].tid = p_ids[i]
                    /\ p_writes[w].lines = p_outcomes[i].runs
                    /\ p_writes[w].file = fileName(p_pattern, p_ids[i], w)

C17_Witness ==
  /\ p_pc = "done"
  /\ Len(p_outcomes) = 2
  /\ p_outcomes[1] = Failed
  /\ p_outcomes[2].ok /\ p_outcomes[2].runs # <<>>
  /\ p_reported = 1

\* C18: traces export writes one file per exported trace: distinct exported
\* traces go to distinct files, the number of files written equals the number
\* of traces reported as exported, and each file holds exactly the runs of
\* its own trace, one per line.
C18_OneFilePerTrace ==
  (p_pc = "done" /\ p_reported # NoNumber) =>
    /\ Cardinality(p_files) = p_reported
    /\ \A i, j \in DOMAIN p_writes :
         p_writes[i].tid # p_writes[j].tid => p_writes[i].file # p_writes[j].file
    /\ \A i \in DOMAIN p_results :
         \E f \in p_files :
           /\ f.lines = p_results[i].runs
           /\ \A k \in DOMAIN f.lines : f.lines[k].trace_id = p_results[i].tid

\* C19: install.sh with --force removes or overwrites only skill directories
\* named like a skill of the package; every other skill directory or file
\* already in the install location stays as it was, for every target and
\* scope.
C19_ForceTouchesOnlyPackageSkills ==
  i_opts.FORCE =>
    \A p \in InstallPaths :
      i_before[p] # Absent /\ i_fs[p] # i_before[p] =>
        p \in Range(PackageSkills) /\ i_before[p] = UserDir

UnsupportedFile == v_file.exists /\ v_file.ext \notin {".json", ".csv"}

\* C20: an unsupported file type is a fatal error: view-file and structure
\* report it, display nothing of the file, and the process ends with a
\* non-zero exit status (as install.sh is claimed to do for an unrecognised
\* argument).
C20_UnsupportedFileIsFatal ==
  (v_pc = "exited" /\ UnsupportedFile) =>
    /\ \E i \in DOMAIN v_out : v_out[i] = Said("Error: Unsupported file type")
    /\ v_exit # 0

\* The same for install.sh: an unrecognised argument ends the script with a
\* non-zero status and the install location untouched.
UnknownOptionIsFatal ==
  (i_pc = "exited" /\ i_opts.unknown) => (i_exit # 0 /\ i_fs = i_before)

\* The part of C20 that holds: nothing of an unsupported file is displayed.
UnsupportedFileIsReported ==
  (v_pc = "exited" /\ UnsupportedFile) =>
    /\ v_out[Len(v_out)] = Said("Error: Unsupported file type")
    /\ \A i \in DOMAIN v_out : v_out[i].text \in {"File:", "Error: Unsupported file type"}

Confirmed == g_answer # <<>> /\ AnsweredY(g_answer[Len(g_answer)])

\* C21: an output file that already exists is overwritten by
\* generate_datasets only if --replace was given and, unless --yes was
\* supplied, only after the user confirmed at the prompt; so a user who
\* answers n finds the file as it was.
C21_OverwriteOnlyAfterConfirmation ==
  [][(g_file.exists /\ g_file' # g_file) =>
       (g_opts.replace /\ (g_opts.yes \/ Confirmed))]_vars

\* The part of C21 that holds: no overwrite without --replace.
OverwriteOnlyWithReplace ==
  [][(g_file.exists /\ g_file' # g_file) => g_opts.replace]_vars

SiblingLists == {h_stack[f].children : f \in DOMAIN h_stack}

KeepsInputOrder(c) ==
  \A i, j \in DOMAIN c :
    (i < j /\ c[i].start_time = c[j].start_time) =>
      IndexOfRun(c[i].run_id) < IndexOfRun(c[j].run_id)

\* C22: where runs are ordered by start time ascending (here the children of
\* a run in the rendered tree), the runs without a start time come after all
\* runs that have one, and runs of equal start time keep their input order.
C22_MissingStartTimeLast ==
  \A c \in SiblingLists :
    /\ \A i, j \in DOMAIN c :
         (i < j /\ c[i].start_time = NoTime) => c[j].start_time = NoTime
    /\ KeepsInputOrder(c)

\* What the sort does: ascending in the key with a missing start time counted
\* as 0, so such runs come first; equal keys keep their input order.
SortIsStableWithMissingAsZero ==
  \A c \in SiblingLists :
    /\ \A i, j \in DOMAIN c : i < j => TimeOf(c[i]) <= TimeOf(c[j])
    /\ KeepsInputOrder(c)

\* The ids of the runs below the root: of every run whose parent is the root
\* or is below the root.
RECURSIVE Below(_)
Below(ids) ==
  LET more == ids \cup {h_runs[i].run_id : i \in {j \in DOMAIN h_runs :
                                                   \/ h_runs[j].parent_run_id = h_target
                                                   \/ h_runs[j].parent_run_id \in ids}}
  IN  IF more = ids THEN ids ELSE Below(more)

HasParent(id, parentId) ==
  \E i \in DOMAIN h_runs : h_runs[i].run_id = id /\ h_runs[i].parent_run_id = parentId

\* C23: in one printTree traversal every run id reachable from the root
\* through parent_run_id links is rendered exactly once, none twice, and in
\* depth-first pre-order: a run is rendered one level below, and after, the
\* run rendered last at the level above, which is its parent; for every run
\* list, with repeated run ids and cyclic parent links included.
C23_TreeRendersEachRunOnce ==
  /\ \A k, m \in DOMAIN h_printed : k # m => h_printed[k][1] # h_printed[m][1]
  /\ \A k \in DOMAIN h_printed :
       LET id == h_printed[k][1]
           indent == h_printed[k][2]
           above == {j \in 1..(k - 1) : h_printed[j][2] = indent - 1}
       IN  IF indent = 1 THEN HasParent(id, h_target)
           ELSE /\ above # {}
                /\ HasParent(id, h_printed[CHOOSE j \in above :
                                             \A i \in above : i <= j][1])
  /\ h_pc = "done" => {h_printed[k][1] : k \in DOMAIN h_printed} = Below({})

\* A traversal that met a run id again (a cycle through a repeated id) has
\* ended with every run id below the root rendered.
C23_Witness ==
  /\ h_pc = "done"
  /\ Len(h_printed) >= 2
  /\ h_iter > Len(h_printed)
  /\ \E i, j \in DOMAIN h_runs : i # j /\ h_runs[i].run_id = h_runs[j].run_id
  /\ h_target \in Below({})

sortedRetrievers ==
  LET retRuns == filterByType(r_runs, "retriever")
  IN  StableSort(retRuns, [i \in DOMAIN retRuns |-> TimeOf(retRuns[i])])

\* The question the inputs of one retriever run yield, "" when none.
questionOf(run) == nextQuery("", run)

\* C24: the question of a RAG example is the one extracted from the inputs of
\* the first retriever run in start-time order; later retriever runs never
\* contribute to it, so a trace whose first retriever run yields no question
\* gives no example.
C24_QuestionFromFirstRetriever ==
  (r_pc = "done" /\ sortedRetrievers # <<>>) =>
    /\ \A k \in DOMAIN r_dataset :
         r_dataset[k].question = questionOf(sortedRetrievers[1])
    /\ questionOf(sortedRetrievers[1]) = "" => r_dataset = <<>>

\* What the loop does: the question is that of the first retriever run, in
\* start-time order, whose inputs yield one.
QuestionFromFirstYieldingRetriever ==
  r_pc = "done" =>
    \A k \in DOMAIN r_dataset :
      \E i \in DOMAIN sortedRetrievers :
        /\ r_dataset[k].question = questionOf(sortedRetrievers[i])
        /\ \A j \in 1..(i - 1) : questionOf(sortedRetrievers[j]) = ""

\* C25: the single_step builder skips a trace only when no run of the trace
\* matches the target name: a trace with at least one matching run gives at
\* least one example, whatever the root run's inputs are.
C25_SkipOnlyWithoutMatch ==
  (s_pc = "done" /\ Truthy(s_options.runName) /\ matchingRuns # <<>>) =>
    s_dataset # <<>>

\* What the builder does: a trace gives an example exactly when the root
\* run's inputs are a non-empty object and a matching run has outputs.
SkipWithoutRootInputsOrOutputs ==
  (s_pc = "done" /\ Truthy(s_options.runName)) =>
    (s_dataset # <<>> <=>
       /\ s_trace.inputs.entries # <<>>
       /\ \E k \in DOMAIN matchingRuns : Truthy(matchingRuns[k].outputs))

IsAi(m) == ~m.isString /\ (m.type = "ai" \/ m.role = "assistant")

IsHuman(m) == ~m.isString /\ (m.type = "human" \/ m.role = "user")

HasText(m) == m.content \notin {JAbsent, JNull, "", "None"}

\* The text of a message's content, "" for a content that is missing.
TextOf(m) == IF m.content \in {JAbsent, JNull} THEN Str("") ELSE Str(m.content)

\* The value at the first (or last) index of the set, Null for the empty set.
AtFirst(idx) ==
  IF idx = {} THEN Null
  ELSE TextOf(m_messages[CHOOSE i \in idx : \A j \in idx : i <= j])

AtLast(idx) ==
  IF idx = {} THEN Null
  ELSE TextOf(m_messages[CHOOSE i \in idx : \A j \in idx : j <= i])

AiReturnsLastWithText ==
  m_role \in {"ai", "assistant"} =>
    m_result = AtLast({i \in DOMAIN m_messages :
                         IsAi(m_messages[i]) /\ HasText(m_messages[i])})

\* C26 as stated: for every messages array, role ai gives the content of the
\* last AI/assistant message whose content is non-empty and not "None", and
\* role human gives the content of the first human/user message.
C26_MessageByRole ==
  m_pc = "returned" =>
    /\ AiReturnsLastWithText
    /\ m_role \in {"human", "user"} =>
         m_result = AtFirst({i \in DOMAIN m_messages : IsHuman(m_messages[i])})

\* C26 as amended: role human gives the first element that is a human/user
\* message or a plain string, a plain string being returned as it is; role
\* ai as stated.
C26_MessageByRoleOrPlainString ==
  m_pc = "returned" =>
    /\ AiReturnsLastWithText
    /\ m_role \in {"human", "user"} =>
         m_result = AtFirst({i \in DOMAIN m_messages :
                               IsHuman(m_messages[i]) \/ m_messages[i].isString})

\* Role ai walked back over a later AI message without content to an earlier
\* one, with another AI message before it.
C26_Witness ==
  /\ m_pc = "returned"
  /\ m_role = "ai"
  /\ Len(m_messages) = 3
  /\ IsAi(m_messages[3]) /\ ~HasText(m_messages[3])
  /\ IsAi(m_messages[1]) /\ HasText(m_messages[1])
  /\ m_result = Str("later")
  /\ m_messages[1].content = "answer"

EvalEnded == e_pc \in {"done", "failed"}

\* The evaluator named TheName existed when the command began: it is still
\* there or the command deleted it.
ExistedBefore == TheName \in e_rules \/ "deleted" \in e_out

\* C27: upload --replace of an existing evaluator never ends with no
\* evaluator of that display name, whatever the outcome of the create request:
\* the new one or the previous one is present afterwards.
C27_ReplaceNeverLosesEvaluator ==
  (EvalEnded /\ e_cmd = "upload" /\ e_opts.replace /\ ExistedBefore) =>
    TheName \in e_rules

\* What holds: the evaluator is missing afterwards only if it was deleted and
\* the create request then failed or was never sent.
EvaluatorLostOnlyAfterDelete ==
  (EvalEnded /\ e_cmd = "upload" /\ ExistedBefore /\ TheName \notin e_rules) =>
    /\ Sent("DELETE")
    /\ "uploaded" \notin e_out

\* C28: after a generate_datasets run with --upload and --replace, confirmed
\* or with --yes, that reports the examples as added, the destination dataset
\* holds exactly the generated examples and none it held before, whatever the
\* outcomes of the read and delete requests before.
C28_ReplacedDatasetHoldsOnlyNew ==
  (/\ g_pc = "done"
   /\ g_opts.upload /\ g_opts.replace
   /\ (g_opts.yes \/ Confirmed)
   /\ "added" \in g_out) =>
    g_remote.examples = g_dataset

\* What holds: the dataset holds only the generated examples whenever the
\* old dataset was in fact deleted.
ReplacedWhenDeleted ==
  (g_pc = "done" /\ "added" \in g_out /\ "deleted" \in g_out) =>
    g_remote.examples = g_dataset

\* C29: when upload is given --dataset D (or --project P) and a create
\* request is sent, the request carries the id of D (or of P): no evaluator
\* for which a target was requested is created untargeted, also when the name
\* cannot be resolved.
C29_CreateCarriesRequestedTarget ==
  \A i \in DOMAIN e_requests :
    e_requests[i].method = "POST" =>
      /\ e_opts.dataset => e_requests[i].dataset_id = "D"
      /\ e_opts.project => e_requests[i].session_id = "P"

\* What holds: the request carries the id of every target that was resolved,
\* and none that was not requested.
CreateCarriesResolvedTarget ==
  \A i \in DOMAIN e_requests :
    e_requests[i].method = "POST" =>
      /\ e_requests[i].dataset_id = e_ids.dataset
      /\ e_requests[i].session_id = e_ids.project
      /\ ~e_opts.dataset => e_requests[i].dataset_id = "none"
      /\ (e_opts.dataset /\ "dataset not found" \notin e_out) =>
           e_requests[i].dataset_id = "D"

\* The file a trace's runs were read from (every trace has at least one run).
FileOf(trace) == trace.runs[1].run_id[1]

\* C30: in the list of traces produced by loading a directory of JSONL files
\* each trace_id occurs at most once: runs that share a trace_id are grouped
\* into one trace even when they are spread over several files.
C30_DirectoryTraceIdsUnique ==
  (l_pc = "loaded" /\ l_input = Dir) =>
    \A i, j \in DOMAIN l_traces :
      l_traces[i].trace_id = l_traces[j].trace_id => i = j

\* What holds: the runs of one trace come from one file, and a trace_id
\* occurs at most once among the traces of one file.
TraceIdsUniquePerFile ==
  l_pc = "loaded" =>
    /\ \A t \in DOMAIN l_traces :
         \A r \in Range(l_traces[t].runs) : r.run_id[1] = FileOf(l_traces[t])
    /\ \A i, j \in DOMAIN l_traces :
         (/\ l_traces[i].trace_id = l_traces[j].trace_id
          /\ FileOf(l_traces[i]) = FileOf(l_traces[j])) => i = j

\* ---- end of the claims ----

====
